---------------------------- MODULE Spec2Model ----------------------------
(***************************************************************************)
(* A model of the dql expression language: the parser (src/src/parser.rs), *)
(* the expression tree and its evaluation (src/src/expression), and the    *)
(* value model with its numeric tower (src/src/types.rs).                  *)
(*                                                                         *)
(* Text and tokens are strings, read character by character with Head,    *)
(* Tail and SubSeq.  A 64-bit machine word is four 16-bit limbs (least     *)
(* significant first), so that the full width of i64/u64 is kept.          *)
(***************************************************************************)
EXTENDS Integers, Sequences, FiniteSets, TLC

VARIABLES
    checks,     \* build profile: TRUE when integer overflow checks are compiled in
    lhs, rhs,   \* the operands handed to an operator of Number or of Any
    op,         \* the operator that was applied ("none" before)
    out,        \* its outcome
    source,     \* the text given to Parser::from
    toks,       \* Parser.lex: the tokens of source
    pos,        \* Parser.lex: number of tokens consumed so far
    parsed,     \* outcome of Parser::expression
    val,        \* outcome of Expr::evaluate on the parsed tree
    shown,      \* text rendered by Display for the parsed tree
    reparsed,   \* outcome of Parser::expression on the rendered text
    reval,      \* outcome of Expr::evaluate on the re-parsed tree
    threads     \* the callers that evaluate the parsed tree at the same time

vars ==
    <<checks, lhs, rhs, op, out, source, toks, pos, parsed, val, shown, reparsed, reval,
      threads>>

\* an outcome that has not been produced yet
Pending == [r |-> "Pending"]

-----------------------------------------------------------------------------
(* 64-bit words: <<l0, l1, l2, l3>>, value = l0 + l1*2^16 + l2*2^32 + l3*2^48 *)

LimbBase == 2^16
LimbCount == 2 + 2
HalfBase == 2^15

Limbs == 0 .. (LimbBase - 1)

W(l0, l1, l2, l3) == <<l0, l1, l2, l3>>

WZero == W(0, 0, 0, 0)
WOne == W(1, 0, 0, 0)
I64Max == W(LimbBase - 1, LimbBase - 1, LimbBase - 1, HalfBase - 1)
I64Min == W(0, 0, 0, HalfBase)
U64Max == W(LimbBase - 1, LimbBase - 1, LimbBase - 1, LimbBase - 1)

\* the sign bit of the two's-complement reading
WNegative(a) == a[4] >= HalfBase

RECURSIVE WAddFrom(_, _, _, _)
WAddFrom(a, b, i, carry) ==
    IF i > LimbCount THEN <<>>
    ELSE LET s == a[i] + b[i] + carry
         IN  <<s % LimbBase>> \o WAddFrom(a, b, i + 1, s \div LimbBase)

\* wrapping_add: the sum modulo 2^64
WAdd(a, b) == WAddFrom(a, b, 1, 0)

WNot(a) == [i \in 1..LimbCount |-> (LimbBase - 1) - a[i]]

\* wrapping_neg
WNeg(a) == WAdd(WNot(a), WOne)

\* wrapping_sub: the difference modulo 2^64
WSub(a, b) == WAdd(a, WNeg(b))

RECURSIVE WScaleFrom(_, _, _, _)
WScaleFrom(a, k, i, carry) ==
    IF i > LimbCount THEN <<>>
    ELSE LET p == a[i] * k + carry
         IN  <<p % LimbBase>> \o WScaleFrom(a, k, i + 1, p \div LimbBase)

\* a * k modulo 2^64 for a small factor 0 <= k < 2^15
WScale(a, k) == WScaleFrom(a, k, 1, 0)

\* the bytes of a word, most significant first
WBytes(a) ==
    <<a[4] \div 256, a[4] % 256, a[3] \div 256, a[3] % 256,
      a[2] \div 256, a[2] % 256, a[1] \div 256, a[1] % 256>>

RECURSIVE WMulFrom(_, _, _, _)
WMulFrom(a, bytes, i, acc) ==
    IF i > Len(bytes) THEN acc
    ELSE WMulFrom(a, bytes, i + 1, WAdd(WScale(acc, 256), WScale(a, bytes[i])))

\* wrapping_mul: the product modulo 2^64
WMul(a, b) == WMulFrom(a, WBytes(b), 1, WZero)

RECURSIVE WLtFrom(_, _, _)
WLtFrom(a, b, i) ==
    IF i = 0 THEN FALSE
    ELSE IF a[i] # b[i] THEN a[i] < b[i]
    ELSE WLtFrom(a, b, i - 1)

\* a < b, both read as u64
WLtU(a, b) == WLtFrom(a, b, LimbCount)

\* a < b, both read as i64
WLtS(a, b) ==
    IF WNegative(a) # WNegative(b) THEN WNegative(a) ELSE WLtU(a, b)

\* bit i (0 = least significant) of a word
WBit(a, i) == (a[(i \div 16) + 1] \div (2^(i % 16))) % 2

\* one step of binary long division: bring down bit i of a
WDivModStep(a, b, i, qr) ==
    LET q == qr[1]
        r == qr[2]
        top == WNegative(r)
        r2 == WAdd(WAdd(r, r), W(WBit(a, i), 0, 0, 0))
        fits == top \/ ~WLtU(r2, b)
    IN  <<WAdd(WAdd(q, q), IF fits THEN WOne ELSE WZero),
          IF fits THEN WSub(r2, b) ELSE r2>>

RECURSIVE WDivModBits(_, _, _, _, _)
WDivModBits(a, b, i, n, qr) ==
    \* the remainder stays below the divisor; the loop ends after n bits
    IF n = 0 \/ ~WLtU(qr[2], b) THEN qr
    ELSE WDivModBits(a, b, i - 1, n - 1, WDivModStep(a, b, i, qr))

RECURSIVE WDivModLimbs(_, _, _, _)
WDivModLimbs(a, b, l, qr) ==
    IF l = 0 THEN qr
    ELSE WDivModLimbs(a, b, l - 1, WDivModBits(a, b, 16 * l - 1, 16, qr))

\* <<a / b, a % b>> for u64 operands, b # 0; operands below 2^31 are divided
\* directly, the others bit by bit
WDivModU(a, b) ==
    IF a[3] = 0 /\ a[4] = 0 /\ a[2] < HalfBase /\ b[3] = 0 /\ b[4] = 0 /\ b[2] < HalfBase
    THEN LET x == a[1] + a[2] * LimbBase
             y == b[1] + b[2] * LimbBase
         IN  <<W((x \div y) % LimbBase, (x \div y) \div LimbBase, 0, 0),
               W((x % y) % LimbBase, (x % y) \div LimbBase, 0, 0)>>
    ELSE WDivModLimbs(a, b, LimbCount, <<WZero, WZero>>)

WAbs(a) == IF WNegative(a) THEN WNeg(a) ELSE a

\* a division that rounds toward negative infinity (b # 0)
WDivFloorS(a, b) ==
    LET qr == WDivModU(WAbs(a), WAbs(b))
    IN  IF WNegative(a) = WNegative(b) THEN qr[1]
        ELSE IF qr[2] = WZero THEN WNeg(qr[1])
        ELSE WNeg(WAdd(qr[1], WOne))

\* i64::wrapping_div: truncates toward zero, MIN / -1 wraps to MIN (b # 0)
WDivS(a, b) ==
    LET q == WDivModU(WAbs(a), WAbs(b))[1]
    IN  IF WNegative(a) # WNegative(b) THEN WNeg(q) ELSE q

\* i64::wrapping_rem: the sign follows the dividend (b # 0)
WRemS(a, b) ==
    LET r == WDivModU(WAbs(a), WAbs(b))[2]
    IN  IF WNegative(a) THEN WNeg(r) ELSE r

\* the word of a small mathematical integer
WFromInt(n) ==
    IF n >= 0 THEN W(n % LimbBase, n \div LimbBase, 0, 0)
    ELSE WNeg(W((-n) % LimbBase, (-n) \div LimbBase, 0, 0))

\* does the i64 reading of a fit the model's exact small-integer range
WSmallS(a) == LET m == WAbs(a) IN m[3] = 0 /\ m[4] = 0 /\ m[2] < HalfBase
WSmallU(a) == a[3] = 0 /\ a[4] = 0 /\ a[2] < HalfBase

\* the mathematical value of a small word
WToIntU(a) == a[1] + a[2] * LimbBase
WToIntS(a) == IF WNegative(a) THEN 0 - WToIntU(WNeg(a)) ELSE WToIntU(a)

-----------------------------------------------------------------------------
(* f64 values.  A float is the fraction n/d in lowest terms with d > 0;   *)
(* d = 0 stands for the non-finite values: 1/0 is +inf, -1/0 is -inf and  *)
(* 0/0 is NaN.  Arithmetic on these fractions is exact, which is what f64 *)
(* does for the short binary and decimal fractions the model draws.       *)

RECURSIVE Gcd(_, _)
Gcd(a, b) == IF b = 0 THEN a ELSE Gcd(b, a % b)

IAbs(n) == IF n < 0 THEN 0 - n ELSE n
Sign(n) == IF n < 0 THEN 0 - 1 ELSE IF n > 0 THEN 1 ELSE 0

F(n, d) == [n |-> n, d |-> d]

FNorm(n, d) ==
    IF d = 0 THEN F(Sign(n), 0)
    ELSE LET g == Gcd(IAbs(n), IAbs(d))
         IN  F(Sign(d) * (n \div g), IAbs(d) \div g)

FNaN == F(0, 0)
FIsNaN(x) == x.d = 0 /\ x.n = 0
FIsInf(x) == x.d = 0 /\ x.n # 0
FFinite(x) == x.d # 0

FNeg(x) == F(0 - x.n, x.d)

FAdd(x, y) ==
    IF FIsNaN(x) \/ FIsNaN(y) THEN FNaN
    ELSE IF FIsInf(x) /\ FIsInf(y) THEN (IF x.n = y.n THEN x ELSE FNaN)
    ELSE IF FIsInf(x) THEN x
    ELSE IF FIsInf(y) THEN y
    ELSE FNorm(x.n * y.d + y.n * x.d, x.d * y.d)

FSub(x, y) == FAdd(x, FNeg(y))

FMul(x, y) ==
    IF FIsNaN(x) \/ FIsNaN(y) THEN FNaN
    ELSE IF FIsInf(x) \/ FIsInf(y) THEN F(Sign(x.n) * Sign(y.n), 0)
    ELSE FNorm(x.n * y.n, x.d * y.d)

FDiv(x, y) ==
    IF FIsNaN(x) \/ FIsNaN(y) THEN FNaN
    ELSE IF FIsInf(x) THEN (IF FIsInf(y) THEN FNaN
                            ELSE F(x.n * (IF y.n < 0 THEN 0 - 1 ELSE 1), 0))
    ELSE IF FIsInf(y) THEN F(0, 1)
    ELSE FNorm(x.n * y.d, x.d * y.n)

\* the integer part of a finite float, rounded toward zero
FTrunc(x) == Sign(x.n) * (IAbs(x.n) \div x.d)

\* the f64 remainder: x - trunc(x/y) * y, with the sign of x
FRem(x, y) ==
    IF FIsNaN(x) \/ FIsNaN(y) \/ FIsInf(x) THEN FNaN
    ELSE IF FIsInf(y) THEN x
    ELSE IF y.n = 0 THEN FNaN
    ELSE FSub(x, FMul(F(FTrunc(FDiv(x, y)), 1), y))

\* IEEE comparison: "lt", "eq", "gt", or "none" when a NaN is involved
FCmp(x, y) ==
    IF FIsNaN(x) \/ FIsNaN(y) THEN "none"
    ELSE IF FIsInf(x) \/ FIsInf(y) THEN
        (IF x.d = 0 /\ y.d = 0 /\ x.n = y.n THEN "eq"
         ELSE IF (x.d = 0 /\ x.n < 0) \/ (y.d = 0 /\ y.n > 0) THEN "lt"
         ELSE "gt")
    ELSE LET a == x.n * y.d
             b == y.n * x.d
         IN  IF a < b THEN "lt" ELSE IF a = b THEN "eq" ELSE "gt"

-----------------------------------------------------------------------------
(* Number: Float(f64) | Integer(i64) | UInteger(u64)                       *)

Float(n, d) == [k |-> "Float", w |-> WZero, f |-> FNorm(n, d)]
Integer(w) == [k |-> "Integer", w |-> w, f |-> F(0, 1)]
UInteger(w) == [k |-> "UInteger", w |-> w, f |-> F(0, 1)]
FloatOf(x) == [k |-> "Float", w |-> WZero, f |-> x]

\* small literals, for readability
I64(n) == Integer(WFromInt(n))
U64(n) == UInteger(WFromInt(n))

\* `x as f64` for an i64 / a u64 (exact for the small integers the model casts)
I64AsF64(w) == F(WToIntS(w), 1)
U64AsF64(w) == F(WToIntU(w), 1)

Ok(v) == [r |-> "Ok", v |-> v]
Panic(why) == [r |-> "Panic", v |-> why]

\* the float operator behind the macro's $op
FloatOp(o, x, y) ==
    CASE o = "+" -> FAdd(x, y)
      [] o = "-" -> FSub(x, y)
      [] o = "*" -> FMul(x, y)
      [] o = "/" -> FDiv(x, y)
      [] o = "%" -> FRem(x, y)

\* a + b leaves the i64 range
AddOverflows(a, b) == WNegative(a) = WNegative(b) /\ WNegative(WAdd(a, b)) # WNegative(a)

\* i64 $op i64 without Wrapping: the addition traps on overflow
CheckedI64Op(o, a, b) ==
    CASE o = "+" -> IF AddOverflows(a, b) THEN Panic("attempt to add with overflow")
                    ELSE Ok(WAdd(a, b))
      [] o = "-" -> Ok(WSub(a, b))
      [] o = "*" -> Ok(WMul(a, b))
      [] o = "/" -> IF b = WZero THEN Panic("attempt to divide by zero")
                    ELSE Ok(WDivS(a, b))
      [] o = "%" -> IF b = WZero
                    THEN Panic("attempt to calculate the remainder with a divisor of zero")
                    ELSE Ok(WRemS(a, b))

\* Wrapping<i64> $op Wrapping<i64>: never overflows, panics on a zero divisor
WrappingI64Op(o, a, b) ==
    CASE o = "+" -> Ok(WAdd(a, b))
      [] o = "-" -> Ok(WSub(a, b))
      [] o = "*" -> Ok(WMul(a, b))
      [] o = "/" -> IF b = WZero THEN Panic("attempt to divide by zero")
                    ELSE Ok(WDivS(a, b))
      [] o = "%" -> IF b = WZero
                    THEN Panic("attempt to calculate the remainder with a divisor of zero")
                    ELSE Ok(WRemS(a, b))

\* Wrapping<u64> $op Wrapping<u64>
WrappingU64Op(o, a, b) ==
    CASE o = "+" -> Ok(WAdd(a, b))
      [] o = "-" -> Ok(WSub(a, b))
      [] o = "*" -> Ok(WMul(a, b))
      [] o = "/" -> IF b = WZero THEN Panic("attempt to divide by zero")
                    ELSE Ok(WDivModU(a, b)[1])
      [] o = "%" -> IF b = WZero
                    THEN Panic("attempt to calculate the remainder with a divisor of zero")
                    ELSE Ok(WDivModU(a, b)[2])

\* wrap the word of a Wrapping outcome into a Number variant
AsInteger(res) == IF res.r = "Ok" THEN Ok(Integer(res.v)) ELSE res
AsUInteger(res) == IF res.r = "Ok" THEN Ok(UInteger(res.v)) ELSE res

\* impl_number_op!: `l $op r` for Numbers; `x as i64` / `x as u64` keep the bits
NumberOp(o, l, r) ==
    CASE l.k = "Float" /\ r.k = "Float" -> Ok(FloatOf(FloatOp(o, l.f, r.f)))
      [] l.k = "Float" /\ r.k = "Integer" -> Ok(FloatOf(FloatOp(o, l.f, I64AsF64(r.w))))
      [] l.k = "Float" /\ r.k = "UInteger" -> Ok(FloatOf(FloatOp(o, l.f, U64AsF64(r.w))))
      [] l.k = "Integer" /\ r.k = "Float" -> Ok(FloatOf(FloatOp(o, I64AsF64(l.w), r.f)))
      [] l.k = "Integer" /\ r.k = "Integer" -> AsInteger(WrappingI64Op(o, l.w, r.w))
      [] l.k = "Integer" /\ r.k = "UInteger" -> AsInteger(WrappingI64Op(o, l.w, r.w))
      [] l.k = "UInteger" /\ r.k = "Float" -> Ok(FloatOf(FloatOp(o, U64AsF64(l.w), r.f)))
      [] l.k = "UInteger" /\ r.k = "Integer" -> AsInteger(WrappingI64Op(o, l.w, r.w))
      [] l.k = "UInteger" /\ r.k = "UInteger" -> AsUInteger(WrappingU64Op(o, l.w, r.w))

-----------------------------------------------------------------------------
(* Text                                                                    *)

Digits == "0123456789"
LowerLetters == "abcdefghijklmnopqrstuvwxyz"
UpperLetters == "ABCDEFGHIJKLMNOPQRSTUVWXYZ"

Char(s, i) == SubSeq(s, i, i)

RECURSIVE IndexFrom(_, _, _)
IndexFrom(c, s, i) ==
    IF i > Len(s) THEN 0
    ELSE IF Char(s, i) = c THEN i
    ELSE IndexFrom(c, s, i + 1)

\* the position of character c in s, 0 when it does not occur
IndexOf(c, s) == IndexFrom(c, s, 1)

IsDigit(c) == IndexOf(c, Digits) # 0
DigitValue(c) == IndexOf(c, Digits) - 1

RECURSIVE ToUppercase(_)
\* str::to_uppercase
ToUppercase(s) ==
    IF s = "" THEN ""
    ELSE LET i == IndexOf(Head(s), LowerLetters)
         IN  (IF i = 0 THEN Head(s) ELSE Char(UpperLetters, i)) \o ToUppercase(Tail(s))

RECURSIVE CountChar(_, _)
\* chars.filter(|c| *c == ch).count()
CountChar(s, ch) ==
    IF s = "" THEN 0
    ELSE (IF Head(s) = ch THEN 1 ELSE 0) + CountChar(Tail(s), ch)

RECURSIVE JoinTokens(_)
\* a token sequence as text, tokens separated by one space
JoinTokens(ts) ==
    IF ts = <<>> THEN ""
    ELSE IF Len(ts) = 1 THEN ts[1]
    ELSE ts[1] \o " " \o JoinTokens(Tail(ts))

-----------------------------------------------------------------------------
(* Keywords of the grammar (parser.rs)                                     *)

STRING_WRAP == "'"
NULL == "NULL"
TRUE_KW == "TRUE"
FALSE_KW == "FALSE"
MAP_WRAP == "{"
MAP_WRAP_END == "}"
MAP_CHILD_SET == ":"
MAP_CHILD_SEP == ","
ARRAY_WRAP == "["
ARRAY_WRAP_END == "]"
ARRAY_CHILD_SEP == ","
ADD == "+"
MINUS == "-"
MULTIPLY == "*"
DIVIDE == "/"
MODULUS == "%"
EXPONENT == "^"
SUB_EXPR_OPEN == "("
SUB_EXPR_CLOSE == ")"

-----------------------------------------------------------------------------
(* Lexer.  Its source file is not part of the sources at hand; it is       *)
(* modelled from its contract: tokens are delimited by whitespace, and the *)
(* punctuation characters that double as operators or wrappers are         *)
(* single-character tokens.                                                *)

Whitespace == " "
\* (the key wrap, a backquote, cannot be written in a string of this module;
\*  no input of the model contains one)
Punctuation == "(){}[],:'\"+-*/%^"

IsWhitespace(c) == IndexOf(c, Whitespace) # 0
IsPunctuation(c) == IndexOf(c, Punctuation) # 0
IsDelimiter(c) == IsWhitespace(c) \/ IsPunctuation(c)

\* a token starts at i: a punctuation character, or the first character of a word
TokenStart(text, i) ==
    /\ ~IsWhitespace(Char(text, i))
    /\ \/ IsPunctuation(Char(text, i))
       \/ i = 1
       \/ IsDelimiter(Char(text, i - 1))

\* the last character of the token that starts at i
TokenEnd(text, i) ==
    IF IsPunctuation(Char(text, i)) THEN i
    ELSE CHOOSE j \in i..Len(text) :
            /\ \A k \in i..j : ~IsDelimiter(Char(text, k))
            /\ j = Len(text) \/ IsDelimiter(Char(text, j + 1))

\* Lexer::from followed by reading every token
Tokenize(text) ==
    LET starts == SelectSeq([i \in 1..Len(text) |-> i], LAMBDA i : TokenStart(text, i))
    IN  [k \in 1..Len(starts) |-> SubSeq(text, starts[k], TokenEnd(text, starts[k]))]

Some(t) == [some |-> TRUE, tok |-> t]
None == [some |-> FALSE, tok |-> ""]

\* Lexer::peak: the next token, not consumed
LexPeak(ts, p) == IF p < Len(ts) THEN Some(ts[p + 1]) ELSE None

\* Lexer::token: the next token; the head moves past it
LexToken(ts, p) ==
    IF p < Len(ts) THEN [opt |-> Some(ts[p + 1]), pos |-> p + 1]
    ELSE [opt |-> None, pos |-> p]

\* Lexer::consumed / Lexer::future, as token sequences
LexConsumed(ts, p) == SubSeq(ts, 1, p)
LexFuture(ts, p) == SubSeq(ts, p + 1, Len(ts))

-----------------------------------------------------------------------------
(* Errors (error.rs).  A message is kept as its format string and the      *)
(* arguments interpolated into it; the positional wrapper is kept as its   *)
(* format and the two sides of the History.                                *)

\* History::new
History(past, future) == [past |-> past, future |-> future]

\* Error::with_history; the bar stands for the block character of the source
WithHistory(fmt, args, h) ==
    [kind |-> "InvalidQuery",
     wrap |-> IF h.future = <<>> THEN "[ {} ] {}" ELSE "[ {} | {} ]: {}",
     past |-> h.past, future |-> h.future,
     fmt |-> fmt, args |-> args]

\* Error::unexpected_eof; Display for History writes the consumed side
UnexpectedEof(h) ==
    [kind |-> "InvalidQuery",
     wrap |-> "{}", past |-> <<>>, future |-> <<>>,
     fmt |-> "unexpected EOF at: \"{}\"", args |-> <<JoinTokens(h.past)>>]

InvalidType ==
    [kind |-> "InvalidType",
     wrap |-> "", past |-> <<>>, future |-> <<>>, fmt |-> "", args |-> <<>>]

-----------------------------------------------------------------------------
(* str::parse::<i64>() and str::parse::<f64>()                             *)

ParseOk(x) == [ok |-> TRUE, x |-> x, err |-> ""]
ParseFail(why) == [ok |-> FALSE, x |-> WZero, err |-> why]

\* i64::MAX / 10 = 0x0CCC_CCCC_CCCC_CCCC: a larger accumulator cannot take a digit
I64MaxDiv10 == W(52428, 52428, 52428, 3276)

RECURSIVE ParseMagnitude(_, _, _, _)
\* the digits ds appended to acc, refusing a value above limit
ParseMagnitude(ds, acc, limit, overflow) ==
    IF ds = "" THEN ParseOk(acc)
    ELSE IF ~IsDigit(Head(ds)) THEN ParseFail("invalid digit found in string")
    ELSE IF WLtU(I64MaxDiv10, acc) THEN ParseFail(overflow)
    ELSE LET next == WAdd(WScale(acc, 10), WFromInt(DigitValue(Head(ds))))
         IN  IF WLtU(limit, next) THEN ParseFail(overflow)
             ELSE ParseMagnitude(Tail(ds), next, limit, overflow)

\* tok.parse::<i64>()
ParseI64(tok) ==
    IF tok = "" THEN ParseFail("cannot parse integer from empty string")
    ELSE IF tok = "+" \/ tok = "-" THEN ParseFail("invalid digit found in string")
    ELSE IF Head(tok) = "-" THEN
        LET m == ParseMagnitude(Tail(tok), WZero, I64Min,
                                "number too small to fit in target type")
        IN  IF m.ok THEN ParseOk(WNeg(m.x)) ELSE m
    ELSE ParseMagnitude(IF Head(tok) = "+" THEN Tail(tok) ELSE tok, WZero, I64Max,
                        "number too large to fit in target type")

RECURSIVE AllDigits(_)
AllDigits(s) == s = "" \/ (IsDigit(Head(s)) /\ AllDigits(Tail(s)))

RECURSIVE DecimalValue(_, _)
\* the value of a short digit string
DecimalValue(ds, acc) ==
    IF ds = "" THEN acc ELSE DecimalValue(Tail(ds), acc * 10 + DigitValue(Head(ds)))

RECURSIVE Pow10(_)
Pow10(k) == IF k = 0 THEN 1 ELSE 10 * Pow10(k - 1)

Unsigned(s) == IF s # "" /\ (Head(s) = "-" \/ Head(s) = "+") THEN Tail(s) ELSE s
Negated(s) == s # "" /\ Head(s) = "-"

\* tok.parse::<f64>() for decimal literals: [sign] digits [. digits] [e [sign] digits]
\* with at least one mantissa digit
ParseF64(tok) ==
    LET body == Unsigned(tok)
        e1 == IndexOf("e", body)
        e2 == IndexOf("E", body)
        ePos == IF e1 # 0 /\ (e2 = 0 \/ e1 < e2) THEN e1 ELSE e2
        mant == IF ePos = 0 THEN body ELSE SubSeq(body, 1, ePos - 1)
        expo == IF ePos = 0 THEN "" ELSE SubSeq(body, ePos + 1, Len(body))
        dot == IndexOf(".", mant)
        whole == IF dot = 0 THEN mant ELSE SubSeq(mant, 1, dot - 1)
        frac == IF dot = 0 THEN "" ELSE SubSeq(mant, dot + 1, Len(mant))
        expDigits == Unsigned(expo)
        wellFormed == /\ AllDigits(whole) /\ AllDigits(frac)
                      /\ Len(whole) + Len(frac) > 0
                      /\ (ePos # 0 => expDigits # "" /\ AllDigits(expDigits))
        m == DecimalValue(whole \o frac, 0) * (IF Negated(tok) THEN 0 - 1 ELSE 1)
        scale == Len(frac) - (IF Negated(expo) THEN 0 - 1 ELSE 1) * DecimalValue(expDigits, 0)
    IN  IF ~wellFormed THEN [ok |-> FALSE, x |-> F(0, 1), err |-> "invalid float literal"]
        ELSE [ok |-> TRUE,
              x |-> IF scale >= 0 THEN FNorm(m, Pow10(scale)) ELSE FNorm(m * Pow10(0 - scale), 1),
              err |-> ""]

-----------------------------------------------------------------------------
(* Expression nodes (expression/literals.rs, expression/math.rs)           *)

StringLiteral(v) == [t |-> "StringLiteral", value |-> v]
NumberLiteral(n) == [t |-> "NumberLiteral", value |-> n]
BoolLiteral(b) == [t |-> "BoolLiteral", value |-> b]
NullExpression == [t |-> "NullExpression"]
MapLiteral(m) == [t |-> "MapLiteral", value |-> m]
ListLiteral(l) == [t |-> "ListLiteral", value |-> l]
AddExpression(l, r) == [t |-> "AddExpression", left |-> l, right |-> r]
SubtractExpression(l, r) == [t |-> "SubtractExpression", left |-> l, right |-> r]
MultiplyExpression(l, r) == [t |-> "MultiplyExpression", left |-> l, right |-> r]
DivideExpression(l, r) == [t |-> "DivideExpression", left |-> l, right |-> r]
ModulusExpression(l, r) == [t |-> "ModulusExpression", left |-> l, right |-> r]
ExponentExpression(l, r) == [t |-> "ExponentExpression", left |-> l, right |-> r]
SubExpression(e) == [t |-> "SubExpression", expr |-> e]

\* HashMap::new and HashMap::insert on a map from keys to values
EmptyMap == <<>>
\* an insert that keeps the value a key already has
MapInsertFirst(m, k, v) ==
    [x \in (DOMAIN m) \cup {k} |-> IF x \in DOMAIN m THEN m[x] ELSE v]

\* HashMap::insert: the value replaces the one the key had
MapInsert(m, k, v) == [x \in (DOMAIN m) \cup {k} |-> IF x = k THEN v ELSE m[x]]

-----------------------------------------------------------------------------
(* Parser (parser.rs).  The parser is its lexer: the token sequence ts and *)
(* the number p of tokens consumed.  Every parsing function returns its    *)
(* outcome together with the position it leaves the lexer at.              *)

POk(v, p) == [r |-> "Ok", v |-> v, pos |-> p]
PErr(e, p) == [r |-> "Err", v |-> e, pos |-> p]
PPanic(why, p) == [r |-> "Panic", v |-> why, pos |-> p]

\* Parser::history
ParserHistory(ts, p) == History(LexConsumed(ts, p), LexFuture(ts, p))

\* the `?` operator: a failure is returned at once, a success is handed on
Try(res, Then(_)) == IF res.r # "Ok" THEN res ELSE Then(res)

\* must_token!
MustToken(ts, p) ==
    IF LexPeak(ts, p).some THEN POk(LexPeak(ts, p).tok, LexToken(ts, p).pos)
    ELSE PErr(UnexpectedEof(ParserHistory(ts, p)), p)

\* peak!(self).unwrap_or_default()
PeakOrDefault(ts, p) == LexPeak(ts, p).tok

\* consume!
Consume(ts, p) == LexToken(ts, p).pos

\* is_next!
IsNext(ts, p, seen) == LexPeak(ts, p).some /\ ToUppercase(LexPeak(ts, p).tok) = seen

\* continue_if! consuming the next token whether it matches or not
ContinueIfAlways(ts, p, seen) == [yes |-> IsNext(ts, p, seen), pos |-> Consume(ts, p)]

\* continue_if!: whether the token was there, and the position afterwards
ContinueIf(ts, p, seen) ==
    IF IsNext(ts, p, seen) THEN [yes |-> TRUE, pos |-> Consume(ts, p)]
    ELSE [yes |-> FALSE, pos |-> p]

\* consume_next!
ConsumeNext(ts, p, expected) ==
    Try(MustToken(ts, p), LAMBDA t :
        IF ToUppercase(t.v) = expected THEN POk(TRUE, t.pos)
        ELSE PErr(WithHistory("expected \"{}\" but got \"{}\"", <<expected, t.v>>,
                              ParserHistory(ts, t.pos)), t.pos))

IDENTIFIER_WRAP == "\""
FN_OPEN == "("
FN_CLOSE == ")"

\* Parser::parse_identifier
ParseIdentifier(ts, p, wrap) ==
    LET wrapped == ContinueIf(ts, p, wrap)
    IN  Try(MustToken(ts, wrapped.pos), LAMBDA value :
            IF wrapped.yes
            THEN Try(ConsumeNext(ts, value.pos, wrap), LAMBDA close :
                     POk(value.v, close.pos))
            ELSE POk(value.v, value.pos))

RECURSIVE LeadingDigits(_)
\* how many digits a text starts with
LeadingDigits(s) ==
    IF s = "" \/ ~IsDigit(Head(s)) THEN 0 ELSE 1 + LeadingDigits(Tail(s))

DurationUnits == {"ns", "us", "ms", "s", "m", "h", "d"}

\* parse_duration::parse on a number followed by its unit, and the map_err
DurationOrError(tok, p) ==
    LET k == LeadingDigits(tok)
        unit == SubSeq(tok, k + 1, Len(tok))
    IN  IF k > 0 /\ unit \in DurationUnits
        THEN POk([count |-> DecimalValue(SubSeq(tok, 1, k), 0), unit |-> unit], p)
        ELSE PErr([kind |-> "InvalidQuery", wrap |-> "{}", past |-> <<>>, future |-> <<>>,
                   fmt |-> "invalid duration {}", args |-> <<tok>>], p)

\* Parser::parse_duration
ParseDuration(ts, p, wrap) ==
    LET wrapped == ContinueIf(ts, p, wrap)
        start == IF wrapped.yes THEN Consume(ts, wrapped.pos) ELSE wrapped.pos
    IN  Try(MustToken(ts, start), LAMBDA value :
            IF wrapped.yes
            THEN Try(ConsumeNext(ts, value.pos, wrap), LAMBDA close :
                     DurationOrError(value.v, close.pos))
            ELSE DurationOrError(value.v, value.pos))

\* the text of the string literal that dql_impl_function writes for the
\* name: quote! copies a string literal as it stands
GeneratedName == "#function_name"

\* Parser::null
ParseNull(ts, p) ==
    Try(ConsumeNext(ts, p, NULL), LAMBDA c : POk(NullExpression, c.pos))

\* string_literal taking the closing quote only when it is there
ParseStringLiteralLoose(ts, p) ==
    Try(ConsumeNext(ts, p, STRING_WRAP), LAMBDA open :
        IF ContinueIf(ts, open.pos, STRING_WRAP).yes
        THEN POk(StringLiteral(""), ContinueIf(ts, open.pos, STRING_WRAP).pos)
        ELSE Try(MustToken(ts, open.pos), LAMBDA value :
                 POk(StringLiteral(value.v),
                     ContinueIf(ts, value.pos, STRING_WRAP).pos)))

\* Parser::string_literal
ParseStringLiteral(ts, p) ==
    Try(ConsumeNext(ts, p, STRING_WRAP), LAMBDA open :
        IF ContinueIf(ts, open.pos, STRING_WRAP).yes
        THEN POk(StringLiteral(""), ContinueIf(ts, open.pos, STRING_WRAP).pos)
        ELSE Try(MustToken(ts, open.pos), LAMBDA value :
             Try(ConsumeNext(ts, value.pos, STRING_WRAP), LAMBDA close :
                 POk(StringLiteral(value.v), close.pos))))

\* the NumberLiteral for the outcome x of str::parse, or the error that names kind
NumberOrError(ts, p, kind, x, number) ==
    IF x.ok THEN POk(NumberLiteral(number), p)
    ELSE PErr(WithHistory("expected " \o kind \o " but got " \o x.err, <<>>,
                          ParserHistory(ts, p)), p)

\* number_literal taking any token with a '.' for a float
ParseNumberLiteralAnyDot(ts, p) ==
    Try(MustToken(ts, p), LAMBDA tok :
        IF CountChar(tok.v, ".") >= 1
        THEN NumberOrError(ts, tok.pos, "float", ParseF64(tok.v), FloatOf(ParseF64(tok.v).x))
        ELSE NumberOrError(ts, tok.pos, "integer", ParseI64(tok.v), Integer(ParseI64(tok.v).x)))

\* number_literal reading its token without moving the head of the lexer
ParseNumberLiteralPeek(ts, p) ==
    Try(MustToken(ts, p), LAMBDA tok :
        IF CountChar(tok.v, ".") = 1
        THEN NumberOrError(ts, p, "float", ParseF64(tok.v), FloatOf(ParseF64(tok.v).x))
        ELSE NumberOrError(ts, p, "integer", ParseI64(tok.v), Integer(ParseI64(tok.v).x)))

\* Parser::number_literal
ParseNumberLiteral(ts, p) ==
    Try(MustToken(ts, p), LAMBDA tok :
        IF CountChar(tok.v, ".") = 1
        THEN NumberOrError(ts, tok.pos, "float", ParseF64(tok.v), FloatOf(ParseF64(tok.v).x))
        ELSE NumberOrError(ts, tok.pos, "integer", ParseI64(tok.v), Integer(ParseI64(tok.v).x)))

\* the BoolLiteral for an upper-cased token
BoolOrError(ts, p, value) ==
    IF value = TRUE_KW THEN POk(BoolLiteral(TRUE), p)
    ELSE IF value = FALSE_KW THEN POk(BoolLiteral(FALSE), p)
    ELSE PErr(WithHistory("expected TRUE or FALSE but got {}", <<value>>,
                          ParserHistory(ts, p)), p)

\* Parser::bool_literal
ParseBoolLiteral(ts, p) ==
    Try(MustToken(ts, p), LAMBDA tok : BoolOrError(ts, tok.pos, ToUppercase(tok.v)))

\* the token starts a number: a digit or '-' comes first
StartsNumber(tok) == tok # "" /\ (IsDigit(Head(tok)) \/ Head(tok) = "-")

\* Parser::parse_unwrapped_expression
ParseUnwrappedExpression(ts, p) ==
    IF StartsNumber(PeakOrDefault(ts, p)) THEN ParseNumberLiteral(ts, p)
    ELSE PPanic("not yet implemented", p)

\* the node for an operator token between two operands
BinaryExpression(o, l, r) ==
    CASE o = ADD -> AddExpression(l, r)
      [] o = MINUS -> SubtractExpression(l, r)
      [] o = MULTIPLY -> MultiplyExpression(l, r)
      [] o = DIVIDE -> DivideExpression(l, r)
      [] o = MODULUS -> ModulusExpression(l, r)
      [] o = EXPONENT -> ExponentExpression(l, r)

\* `expr = XExpression::new(expr, right?)`
Combine(o, left, right) ==
    Try(right, LAMBDA r : POk(BinaryExpression(o, left.v, r.v), r.pos))

RECURSIVE ParseExpressionAdd(_, _), AddLoop(_, _)
RECURSIVE ParseExpressionMultiply(_, _), MultiplyLoop(_, _)
RECURSIVE ParseExpressionExponent(_, _), ExponentLoop(_, _)
RECURSIVE ParseExpression(_, _)
RECURSIVE ParseMapLiteral(_, _), MapLoop(_, _, _)
RECURSIVE ParseListLiteral(_, _), ListLoop(_, _, _)

\* expression refusing an input that goes on after the expression
ExpressionToEnd(ts, p) ==
    Try(ParseExpressionAdd(ts, p), LAMBDA e :
        IF LexPeak(ts, e.pos).some
        THEN PErr(WithHistory("expected the end but got {}", <<LexPeak(ts, e.pos).tok>>,
                              ParserHistory(ts, e.pos)), e.pos)
        ELSE e)

\* Parser::expression
Expression(ts, p) == ParseExpressionAdd(ts, p)

\* Parser::parse_expression_add
ParseExpressionAdd(ts, p) == AddLoop(ts, ParseExpressionMultiply(ts, p))

\* parse_expression_add taking a bare atom for its right operand
AddLoopAtom(ts, expr) ==
    Try(expr, LAMBDA left :
        IF PeakOrDefault(ts, left.pos) \in {ADD, MINUS} THEN
            AddLoop(ts, Combine(PeakOrDefault(ts, left.pos), left,
                                ParseExpression(ts, Consume(ts, left.pos))))
        ELSE left)

\* the loop of parse_expression_add; expr is the outcome of what is parsed so far
AddLoop(ts, expr) ==
    Try(expr, LAMBDA left :
        IF PeakOrDefault(ts, left.pos) \in {ADD, MINUS} THEN
            AddLoop(ts, Combine(PeakOrDefault(ts, left.pos), left,
                                ParseExpressionMultiply(ts, Consume(ts, left.pos))))
        ELSE left)

\* Parser::parse_expression_multiply
ParseExpressionMultiply(ts, p) == MultiplyLoop(ts, ParseExpressionExponent(ts, p))

\* the loop of parse_expression_multiply
MultiplyLoop(ts, expr) ==
    Try(expr, LAMBDA left :
        IF PeakOrDefault(ts, left.pos) \in {MULTIPLY, DIVIDE, MODULUS} THEN
            MultiplyLoop(ts, Combine(PeakOrDefault(ts, left.pos), left,
                                     ParseExpressionExponent(ts, Consume(ts, left.pos))))
        ELSE left)

\* Parser::parse_expression_exponent
ParseExpressionExponent(ts, p) == ExponentLoop(ts, ParseExpression(ts, p))

\* parse_expression_exponent recursing into itself for its right operand
ExponentLoopRight(ts, expr) ==
    Try(expr, LAMBDA left :
        IF PeakOrDefault(ts, left.pos) = EXPONENT THEN
            Combine(EXPONENT, left, ParseExpressionExponent(ts, Consume(ts, left.pos)))
        ELSE left)

\* the loop of parse_expression_exponent
ExponentLoop(ts, expr) ==
    Try(expr, LAMBDA left :
        IF PeakOrDefault(ts, left.pos) = EXPONENT THEN
            ExponentLoop(ts, Combine(EXPONENT, left,
                                     ParseExpression(ts, Consume(ts, left.pos))))
        ELSE left)

\* the arm parse_expression takes on the upper-cased next token
ExpressionArm(ts, p, left) ==
    CASE left = SUB_EXPR_OPEN ->
            Try(Expression(ts, Consume(ts, p)), LAMBDA inner :
            Try(ConsumeNext(ts, inner.pos, SUB_EXPR_CLOSE), LAMBDA close :
                POk(SubExpression(inner.v), close.pos)))
      [] left = STRING_WRAP -> ParseStringLiteral(ts, p)
      [] left = MAP_WRAP -> ParseMapLiteral(ts, p)
      [] left = ARRAY_WRAP -> ParseListLiteral(ts, p)
      [] left = TRUE_KW -> ParseBoolLiteral(ts, p)
      [] left = FALSE_KW -> ParseBoolLiteral(ts, p)
      [] left = NULL -> ParseNull(ts, p)
      [] OTHER -> ParseUnwrappedExpression(ts, p)

\* parse_expression matching the token as written, without upper-casing it
ParseExpressionExact(ts, p) == ExpressionArm(ts, p, PeakOrDefault(ts, p))

\* Parser::parse_expression
ParseExpression(ts, p) == ExpressionArm(ts, p, ToUppercase(PeakOrDefault(ts, p)))

\* Parser::map_literal
ParseMapLiteral(ts, p) ==
    Try(ConsumeNext(ts, p, MAP_WRAP), LAMBDA open : MapLoop(ts, open.pos, EmptyMap))

\* the token after a child, with either closing bracket taken for the end
AfterChildAnyEnd(ts, tok, end, sep, Done, Again) ==
    IF tok.v \in {MAP_WRAP_END, ARRAY_WRAP_END} THEN Done
    ELSE IF tok.v = sep THEN Again
    ELSE PErr(WithHistory("expected {} or {} but got {}", <<sep, end, tok.v>>,
                          ParserHistory(ts, tok.pos)), tok.pos)

\* the token after a child of a collection: its end, a separator, or an error
AfterChild(ts, tok, end, sep, Done, Again) ==
    IF tok.v = end THEN Done
    ELSE IF tok.v = sep THEN Again
    ELSE PErr(WithHistory("expected {} or {} but got {}", <<sep, end, tok.v>>,
                          ParserHistory(ts, tok.pos)), tok.pos)

\* the loop of map_literal, with the map built so far
MapLoop(ts, p, map) ==
    Try(ParseStringLiteral(ts, p), LAMBDA key :
    Try(ConsumeNext(ts, key.pos, MAP_CHILD_SET), LAMBDA set :
    Try(Expression(ts, set.pos), LAMBDA value :
    Try(MustToken(ts, value.pos), LAMBDA tok :
        AfterChild(ts, tok, MAP_WRAP_END, MAP_CHILD_SEP,
                   POk(MapLiteral(MapInsert(map, key.v.value, value.v)), tok.pos),
                   MapLoop(ts, tok.pos, MapInsert(map, key.v.value, value.v)))))))

\* Parser::list_literal
ParseListLiteral(ts, p) ==
    Try(ConsumeNext(ts, p, ARRAY_WRAP), LAMBDA open : ListLoop(ts, open.pos, <<>>))

\* the loop of list_literal, with the list built so far
ListLoop(ts, p, list) ==
    Try(Expression(ts, p), LAMBDA value :
    Try(MustToken(ts, value.pos), LAMBDA tok :
        AfterChild(ts, tok, ARRAY_WRAP_END, ARRAY_CHILD_SEP,
                   POk(ListLiteral(Append(list, value.v)), tok.pos),
                   ListLoop(ts, tok.pos, Append(list, value.v)))))

\* the method dql_impl_function generates for a node with one field, such as
\* ToUpper { value }: the name, FN_OPEN, the field, FN_CLOSE
GeneratedParser(ts, p) ==
    Try(ConsumeNext(ts, p, GeneratedName), LAMBDA name :
    Try(ConsumeNext(ts, name.pos, FN_OPEN), LAMBDA open :
    Try(Expression(ts, open.pos), LAMBDA value :
    Try(ConsumeNext(ts, value.pos, FN_CLOSE), LAMBDA close :
        POk([t |-> "ToUpper", value |-> value.v], close.pos)))))

-----------------------------------------------------------------------------
(* Any (types.rs)                                                          *)

AnyNull == [t |-> "Null"]
AnyStr(x) == [t |-> "Str", v |-> x]
AnyBytes(x) == [t |-> "Bytes", v |-> x]
AnyNumber(x) == [t |-> "Number", v |-> x]
AnyBool(x) == [t |-> "Bool", v |-> x]
AnyList(x) == [t |-> "List", v |-> x]
AnyMap(x) == [t |-> "Map", v |-> x]

Err(e) == [r |-> "Err", v |-> e]

\* impl_any_try_from!(Number, Number)
TryIntoNumber(any) == IF any.t = "Number" THEN Ok(any.v) ELSE Err(InvalidType)

\* == comparing the bit patterns of an i64 and a u64, whatever the sign
NumberEqBits(l, r) ==
    CASE l.k = "Float" /\ r.k = "Float" -> FCmp(l.f, r.f) = "eq"
      [] l.k = "Float" /\ r.k = "Integer" -> FCmp(l.f, I64AsF64(r.w)) = "eq"
      [] l.k = "Float" /\ r.k = "UInteger" -> FCmp(l.f, U64AsF64(r.w)) = "eq"
      [] l.k = "Integer" /\ r.k = "Float" -> FCmp(I64AsF64(l.w), r.f) = "eq"
      [] l.k = "UInteger" /\ r.k = "Float" -> FCmp(U64AsF64(l.w), r.f) = "eq"
      [] OTHER -> l.w = r.w

\* PartialEq for Number
NumberEq(l, r) ==
    CASE l.k = "Float" /\ r.k = "Float" -> FCmp(l.f, r.f) = "eq"
      [] l.k = "Float" /\ r.k = "Integer" -> FCmp(l.f, I64AsF64(r.w)) = "eq"
      [] l.k = "Float" /\ r.k = "UInteger" -> FCmp(l.f, U64AsF64(r.w)) = "eq"
      [] l.k = "Integer" /\ r.k = "Float" -> FCmp(I64AsF64(l.w), r.f) = "eq"
      [] l.k = "Integer" /\ r.k = "Integer" -> l.w = r.w
      [] l.k = "Integer" /\ r.k = "UInteger" -> IF WNegative(l.w) THEN FALSE ELSE l.w = r.w
      [] l.k = "UInteger" /\ r.k = "Float" -> FCmp(U64AsF64(l.w), r.f) = "eq"
      [] l.k = "UInteger" /\ r.k = "Integer" -> IF WNegative(r.w) THEN FALSE ELSE l.w = r.w
      [] l.k = "UInteger" /\ r.k = "UInteger" -> l.w = r.w

RECURSIVE AnyEq(_, _)
\* PartialEq for Any
AnyEq(a, b) ==
    CASE a.t = "Null" /\ b.t = "Null" -> TRUE
      [] a.t = "Str" /\ b.t = "Str" -> a.v = b.v
      [] a.t = "Bytes" /\ b.t = "Bytes" -> a.v = b.v
      [] a.t = "Number" /\ b.t = "Number" -> NumberEq(a.v, b.v)
      [] a.t = "Bool" /\ b.t = "Bool" -> a.v = b.v
      [] a.t = "List" /\ b.t = "List" ->
            /\ Len(a.v) = Len(b.v)
            /\ \A i \in 1..Len(a.v) : AnyEq(a.v[i], b.v[i])
      [] a.t = "Map" /\ b.t = "Map" ->
            /\ DOMAIN a.v = DOMAIN b.v
            /\ \A k \in DOMAIN a.v : AnyEq(a.v[k], b.v[k])
      [] OTHER -> FALSE

-----------------------------------------------------------------------------
(* Ordering and hashing of Number and Any (types.rs)                       *)

\* Str and Bytes hold their data owned or borrowed, a map iterates its
\* entries in some order: `form` and `order` carry what equality must ignore
StrIn(form, x) == [t |-> "Str", v |-> x, form |-> form]
BytesIn(form, x) == [t |-> "Bytes", v |-> x, form |-> form]
MapIn(order, m) == [t |-> "Map", v |-> m, order |-> order]

\* the byte of a character of the model's alphabet
CodeOf(c) ==
    IF IsDigit(c) THEN 47 + IndexOf(c, Digits)
    ELSE IF IndexOf(c, UpperLetters) # 0 THEN 64 + IndexOf(c, UpperLetters)
    ELSE 96 + IndexOf(c, LowerLetters)

\* str::as_bytes
AsBytes(text) == [i \in 1..Len(text) |-> CodeOf(Char(text, i))]

RECURSIVE SeqCmp(_, _, _)
\* Ord for slices of bytes: the first difference decides, then the length
SeqCmp(x, y, i) ==
    IF i > Len(x) /\ i > Len(y) THEN "eq"
    ELSE IF i > Len(x) THEN "lt"
    ELSE IF i > Len(y) THEN "gt"
    ELSE IF x[i] < y[i] THEN "lt"
    ELSE IF x[i] > y[i] THEN "gt"
    ELSE SeqCmp(x, y, i + 1)

\* u64 and i64 comparison of two words
U64Cmp(a, b) == IF a = b THEN "eq" ELSE IF WLtU(a, b) THEN "lt" ELSE "gt"
I64Cmp(a, b) == IF a = b THEN "eq" ELSE IF WLtS(a, b) THEN "lt" ELSE "gt"

\* partial_cmp casting the u64 to i64 when the i64 is negative
NumberPartialCmpCast(l, r) ==
    CASE l.k = "Float" /\ r.k = "Float" -> FCmp(l.f, r.f)
      [] l.k = "Float" /\ r.k = "Integer" -> FCmp(l.f, I64AsF64(r.w))
      [] l.k = "Float" /\ r.k = "UInteger" -> FCmp(l.f, U64AsF64(r.w))
      [] l.k = "Integer" /\ r.k = "Float" -> FCmp(I64AsF64(l.w), r.f)
      [] l.k = "Integer" /\ r.k = "Integer" -> I64Cmp(l.w, r.w)
      [] l.k = "Integer" /\ r.k = "UInteger" ->
            IF WNegative(l.w) THEN I64Cmp(l.w, r.w) ELSE U64Cmp(l.w, r.w)
      [] l.k = "UInteger" /\ r.k = "Float" -> FCmp(U64AsF64(l.w), r.f)
      [] l.k = "UInteger" /\ r.k = "Integer" ->
            IF WNegative(r.w) THEN I64Cmp(l.w, r.w) ELSE U64Cmp(l.w, r.w)
      [] l.k = "UInteger" /\ r.k = "UInteger" -> U64Cmp(l.w, r.w)

\* PartialOrd for Number
NumberPartialCmp(l, r) ==
    CASE l.k = "Float" /\ r.k = "Float" -> FCmp(l.f, r.f)
      [] l.k = "Float" /\ r.k = "Integer" -> FCmp(l.f, I64AsF64(r.w))
      [] l.k = "Float" /\ r.k = "UInteger" -> FCmp(l.f, U64AsF64(r.w))
      [] l.k = "Integer" /\ r.k = "Float" -> FCmp(I64AsF64(l.w), r.f)
      [] l.k = "Integer" /\ r.k = "Integer" -> I64Cmp(l.w, r.w)
      [] l.k = "Integer" /\ r.k = "UInteger" ->
            IF WNegative(l.w) THEN "lt" ELSE U64Cmp(l.w, r.w)
      [] l.k = "UInteger" /\ r.k = "Float" -> FCmp(U64AsF64(l.w), r.f)
      [] l.k = "UInteger" /\ r.k = "Integer" ->
            IF WNegative(r.w) THEN "gt" ELSE U64Cmp(l.w, r.w)
      [] l.k = "UInteger" /\ r.k = "UInteger" -> U64Cmp(l.w, r.w)

RECURSIVE AnyPartialCmp(_, _), ListPartialCmp(_, _, _)

\* partial_cmp without the arms for Null against another variant
AnyPartialCmpSameVariant(a, b) ==
    CASE a.t = "Null" /\ b.t = "Null" -> "eq"
      [] a.t = "Str" /\ b.t = "Str" -> SeqCmp(AsBytes(a.v), AsBytes(b.v), 1)
      [] a.t = "Bytes" /\ b.t = "Bytes" -> SeqCmp(a.v, b.v, 1)
      [] a.t = "Number" /\ b.t = "Number" -> NumberPartialCmp(a.v, b.v)
      [] a.t = "Bool" /\ b.t = "Bool" ->
            IF a.v = b.v THEN "eq" ELSE IF b.v THEN "lt" ELSE "gt"
      [] a.t = "List" /\ b.t = "List" -> ListPartialCmp(a.v, b.v, 1)
      [] OTHER -> "none"

\* PartialOrd for Any: "lt", "eq", "gt", or "none" for None
AnyPartialCmp(a, b) ==
    CASE a.t = "Null" /\ b.t = "Null" -> "eq"
      [] a.t = "Null" -> "lt"
      [] b.t = "Null" -> "gt"
      [] a.t = "Str" /\ b.t = "Str" -> SeqCmp(AsBytes(a.v), AsBytes(b.v), 1)
      [] a.t = "Bytes" /\ b.t = "Bytes" -> SeqCmp(a.v, b.v, 1)
      [] a.t = "Number" /\ b.t = "Number" -> NumberPartialCmp(a.v, b.v)
      [] a.t = "Bool" /\ b.t = "Bool" ->
            IF a.v = b.v THEN "eq" ELSE IF b.v THEN "lt" ELSE "gt"
      [] a.t = "List" /\ b.t = "List" -> ListPartialCmp(a.v, b.v, 1)
      [] OTHER -> "none"

\* PartialOrd for Vec<Any>: the first pair that is not Equal decides
ListPartialCmp(x, y, i) ==
    IF i > Len(x) /\ i > Len(y) THEN "eq"
    ELSE IF i > Len(x) THEN "lt"
    ELSE IF i > Len(y) THEN "gt"
    ELSE IF AnyPartialCmp(x[i], y[i]) # "eq" THEN AnyPartialCmp(x[i], y[i])
    ELSE ListPartialCmp(x, y, i + 1)

RECURSIVE Log2(_)
\* the position of the highest bit of a positive integer
Log2(n) == IF n < 2 THEN 0 ELSE 1 + Log2(n \div 2)

RECURSIVE WShl(_, _)
\* a << n, fifteen bits at a time
WShl(a, n) ==
    IF n = 0 THEN a
    ELSE IF n >= 15 THEN WShl(WScale(a, HalfBase), n - 15)
    ELSE WScale(a, 2^n)

\* f64::to_bits of a float n / 2^k: the sign, the exponent biased by 1023 and
\* the 52 bits of the mantissa
FloatToBits(x) ==
    IF FIsNaN(x) THEN W(0, 0, 0, 32760)
    ELSE IF FIsInf(x) THEN W(0, 0, 0, 32752 + (IF x.n < 0 THEN HalfBase ELSE 0))
    ELSE IF x.n = 0 THEN WZero
    ELSE LET p == Log2(IAbs(x.n))
             mantissa == WShl(WFromInt(IAbs(x.n) - 2^p), 52 - p)
             exponent == p - Log2(x.d) + 1023
         IN  W(mantissa[1], mantissa[2], mantissa[3],
               mantissa[4] + exponent * 16 + (IF x.n < 0 THEN HalfBase ELSE 0))

\* one write to a Hasher: a byte, or the u64 a map writes, the XOR of the
\* finished hashes of its entries, kept as the set of what the entries wrote
Byte(b) == [byte |-> b, xor |-> {}]
Xor(entries) == [byte |-> 0 - 1, xor |-> entries]

\* Hasher::write of a slice
WriteBytes(bytes) == [i \in 1..Len(bytes) |-> Byte(bytes[i])]

\* Hasher::write_u64 / write_i64 / write_usize of a word
WriteWord(w) == WriteBytes(WBytes(w))

\* Hash for Number
NumberHash(n) == IF n.k = "Float" THEN WriteWord(FloatToBits(n.f)) ELSE WriteWord(n.w)

RECURSIVE AnyHash(_), ListHash(_, _)

\* Hash for Any: what the value writes to the Hasher.  A map writes every
\* entry to a fresh DefaultHasher and XORs the finished hashes.
AnyHash(a) ==
    CASE a.t = "Null" -> WriteBytes(<<0>>)
      [] a.t = "Str" -> WriteBytes(AsBytes(a.v))
      [] a.t = "Bytes" -> WriteBytes(a.v)
      [] a.t = "Number" -> NumberHash(a.v)
      [] a.t = "Bool" -> WriteBytes(<<IF a.v THEN 1 ELSE 0>>)
      [] a.t = "List" -> WriteWord(WFromInt(Len(a.v))) \o ListHash(a.v, 1)
      [] a.t = "Map" ->
            <<Xor({WriteBytes(AsBytes(k)) \o AnyHash(a.v[k]) : k \in DOMAIN a.v})>>

\* Hash for the elements of a Vec<Any>, one after the other
ListHash(list, i) ==
    IF i > Len(list) THEN <<>> ELSE AnyHash(list[i]) \o ListHash(list, i + 1)

\* two values written to two hashers in the same state finish equal exactly
\* when they wrote the same: DefaultHasher is taken to be free of collisions
SameHash(x, y) == x = y
-----------------------------------------------------------------------------
(* Evaluation (expression/mod.rs, literals.rs, math.rs)                    *)

\* `x as i64` for an f64: truncates, saturates, NaN becomes 0
F64AsI64(x) ==
    IF FIsNaN(x) THEN WZero
    ELSE IF FIsInf(x) THEN (IF x.n > 0 THEN I64Max ELSE I64Min)
    ELSE WFromInt(FTrunc(x))

U32Max == W(LimbBase - 1, LimbBase - 1, 0, 0)

\* `x as u32` for an f64: truncates, saturates at 0 and u32::MAX, NaN becomes 0
F64AsU32(x) ==
    IF FIsNaN(x) \/ x.n < 0 THEN WZero
    ELSE IF FIsInf(x) THEN U32Max
    ELSE WFromInt(FTrunc(x))

\* impl_number_from!(i64, ..): i64::from(Number)
NumberAsI64(n) == IF n.k = "Float" THEN F64AsI64(n.f) ELSE n.w

\* impl_number_from!(u32, ..): u32::from(Number); an integer keeps its low 32 bits
NumberAsU32(n) == IF n.k = "Float" THEN F64AsU32(n.f) ELSE W(n.w[1], n.w[2], 0, 0)

\* does the i64 product a * b overflow
MulOverflows(a, b) ==
    /\ a # WZero /\ b # WZero
    /\ ~(WSmallS(a) /\ WSmallS(b))
    /\ \/ (a = U64Max /\ b = I64Min) \/ (b = U64Max /\ a = I64Min)
       \/ WDivS(WMul(a, b), b) # a

\* one round of i64::pow on bit i of the exponent
PowStep(exp, i, st, last) ==
    LET odd == WBit(exp, i) = 1
        acc == IF odd THEN WMul(st.acc, st.base) ELSE st.acc
        o1 == odd /\ MulOverflows(st.acc, st.base)
        o2 == ~last /\ MulOverflows(st.base, st.base)
    IN  [acc |-> acc,
         base |-> IF last THEN st.base ELSE WMul(st.base, st.base),
         ovf |-> st.ovf \/ o1 \/ o2]

\* no bit of the 32-bit exponent above bit i is set
TopBit(exp, i) == \A j \in (i + 1)..31 : WBit(exp, j) = 0

RECURSIVE PowLoop(_, _, _, _)
PowLoop(exp, i, st, oc) ==
    LET next == PowStep(exp, i, st, TopBit(exp, i))
    IN  IF oc /\ next.ovf THEN Panic("attempt to multiply with overflow")
        ELSE IF TopBit(exp, i) THEN Ok(next.acc)
        ELSE PowLoop(exp, i + 1, next, oc)

\* i64::pow(base, exp: u32); an overflowing multiplication panics when overflow
\* checks are compiled in (oc) and wraps otherwise
I64Pow(base, exp, oc) ==
    IF exp = WZero THEN Ok(WOne)
    ELSE PowLoop(exp, 0, [acc |-> WOne, base |-> base, ovf |-> FALSE], oc)

\* the operator token of a binary arithmetic node
MathOp(t) ==
    CASE t = "AddExpression" -> "+"
      [] t = "SubtractExpression" -> "-"
      [] t = "MultiplyExpression" -> "*"
      [] t = "DivideExpression" -> "/"
      [] t = "ModulusExpression" -> "%"

IsMath(t) ==
    t \in {"AddExpression", "SubtractExpression", "MultiplyExpression",
           "DivideExpression", "ModulusExpression"}

\* Ok(Any::Number(left $op right))
MathResult(o, left, right) ==
    LET res == NumberOp(o, left, right)
    IN  IF res.r = "Ok" THEN Ok(AnyNumber(res.v)) ELSE res

\* Ok(Any::from(i64::from(left).pow(u32::from(right))))
ExponentResult(left, right, oc) ==
    LET res == I64Pow(NumberAsI64(left), NumberAsU32(right), oc)
    IN  IF res.r = "Ok" THEN Ok(AnyNumber(Integer(res.v))) ELSE res

RECURSIVE Evaluate(_, _), EvaluateList(_, _, _, _), EvaluateMap(_, _)

\* `let x: Number = child.evaluate(d)?.try_into()?`
EvaluateNumber(child, oc) ==
    LET res == Evaluate(child, oc)
    IN  IF res.r = "Ok" THEN TryIntoNumber(res.v) ELSE res

\* the evaluation of a binary node that takes its right child first
EvaluateBinaryRightFirst(e, oc) ==
    LET left == EvaluateNumber(e.left, oc)
        right == EvaluateNumber(e.right, oc)
    IN  IF right.r # "Ok" THEN right
        ELSE IF left.r # "Ok" THEN left
        ELSE IF e.t = "ExponentExpression" THEN ExponentResult(left.v, right.v, oc)
        ELSE MathResult(MathOp(e.t), left.v, right.v)

\* impl_expression_math_op! evaluate and ExponentExpression::evaluate
EvaluateBinary(e, oc) ==
    LET left == EvaluateNumber(e.left, oc)
        right == EvaluateNumber(e.right, oc)
    IN  IF left.r # "Ok" THEN left
        ELSE IF right.r # "Ok" THEN right
        ELSE IF e.t = "ExponentExpression" THEN ExponentResult(left.v, right.v, oc)
        ELSE MathResult(MathOp(e.t), left.v, right.v)

\* ListLiteral::evaluate putting each value in front of the earlier ones
EvaluateListReversed(children, i, acc, oc) ==
    IF i > Len(children) THEN Ok(AnyList(acc))
    ELSE LET res == Evaluate(children[i], oc)
         IN  IF res.r = "Panic" THEN res
             ELSE EvaluateList(children, i + 1,
                               IF res.r = "Ok" THEN <<res.v>> \o acc ELSE acc, oc)

\* ListLiteral::evaluate: the children in order, the failing ones filtered out
EvaluateList(children, i, acc, oc) ==
    IF i > Len(children) THEN Ok(AnyList(acc))
    ELSE LET res == Evaluate(children[i], oc)
         IN  IF res.r = "Panic" THEN res
             ELSE EvaluateList(children, i + 1,
                               IF res.r = "Ok" THEN Append(acc, res.v) ELSE acc, oc)

\* MapLiteral::evaluate: the entries whose value evaluates, in no particular order
EvaluateMap(m, oc) ==
    LET res == [k \in DOMAIN m |-> Evaluate(m[k], oc)]
        panicked == {k \in DOMAIN m : res[k].r = "Panic"}
        kept == {k \in DOMAIN m : res[k].r = "Ok"}
    IN  IF panicked # {} THEN res[CHOOSE k \in panicked : TRUE]
        ELSE Ok(AnyMap([k \in kept |-> res[k].v]))

\* Expr::evaluate; no node of the model reads the container
Evaluate(e, oc) ==
    CASE e.t = "StringLiteral" -> Ok(AnyStr(e.value))
      [] e.t = "NumberLiteral" -> Ok(AnyNumber(e.value))
      [] e.t = "BoolLiteral" -> Ok(AnyBool(e.value))
      [] e.t = "NullExpression" -> Ok(AnyNull)
      [] e.t = "MapLiteral" -> EvaluateMap(e.value, oc)
      [] e.t = "ListLiteral" -> EvaluateList(e.value, 1, <<>>, oc)
      [] e.t = "SubExpression" -> Evaluate(e.expr, oc)
      [] OTHER -> EvaluateBinary(e, oc)

-----------------------------------------------------------------------------
(* Display (literals.rs, math.rs, types.rs)                                *)

WTen == WFromInt(10)

RECURSIVE U64Decimal(_)
\* the decimal digits of the u64 reading of a word
U64Decimal(w) ==
    LET qr == WDivModU(w, WTen)
        digit == Char(Digits, qr[2][1] + 1)
    IN  IF qr[1] = WZero THEN digit ELSE U64Decimal(qr[1]) \o digit

\* the decimal digits of the i64 reading of a word
I64Decimal(w) == IF WNegative(w) THEN "-" \o U64Decimal(WNeg(w)) ELSE U64Decimal(w)

RECURSIVE IntDecimal(_)
IntDecimal(n) ==
    IF n < 10 THEN Char(Digits, n + 1)
    ELSE IntDecimal(n \div 10) \o Char(Digits, (n % 10) + 1)

\* the longest digit string the shortest round-trip rendering of an f64 takes
FractionDigits == 17

RECURSIVE FractionDecimal(_, _, _)
\* the fractional digits of r/d, 0 <= r < d
FractionDecimal(r, d, left) ==
    IF r = 0 \/ left = 0 THEN ""
    ELSE Char(Digits, ((r * 10) \div d) + 1) \o FractionDecimal((r * 10) % d, d, left - 1)

\* Debug for f64: the value with at least one fractional digit
F64Debug(x) ==
    IF FIsNaN(x) THEN "NaN"
    ELSE IF FIsInf(x) THEN (IF x.n > 0 THEN "inf" ELSE "-inf")
    ELSE LET whole == IAbs(x.n) \div x.d
             frac == FractionDecimal(IAbs(x.n) % x.d, x.d, FractionDigits)
         IN  (IF x.n < 0 THEN "-" ELSE "") \o IntDecimal(whole) \o "."
                \o (IF frac = "" THEN "0" ELSE frac)

\* Display for Number is the derived Debug: the variant around its value
NumberDisplay(n) ==
    CASE n.k = "Float" -> "Float(" \o F64Debug(n.f) \o ")"
      [] n.k = "Integer" -> "Integer(" \o I64Decimal(n.w) \o ")"
      [] n.k = "UInteger" -> "UInteger(" \o U64Decimal(n.w) \o ")"

\* stringify!($op) of a binary node; ExponentExpression prints the constant's name
OpDisplay(t) == IF t = "ExponentExpression" THEN "EXPONENT" ELSE MathOp(t)

RECURSIVE Display(_)
\* Display for Expr, on the nodes that hold no collection
Display(e) ==
    CASE e.t = "StringLiteral" -> STRING_WRAP \o e.value \o STRING_WRAP
      [] e.t = "NumberLiteral" -> NumberDisplay(e.value)
      [] e.t = "BoolLiteral" -> IF e.value THEN "true" ELSE "false"
      [] e.t = "NullExpression" -> "NullExpression"
      [] e.t = "SubExpression" -> "(" \o Display(e.expr) \o ")"
      [] OTHER -> Display(e.left) \o " " \o OpDisplay(e.t) \o " " \o Display(e.right)

RECURSIVE HoldsCollection(_)
HoldsCollection(e) ==
    CASE e.t \in {"MapLiteral", "ListLiteral"} -> TRUE
      [] e.t \in {"StringLiteral", "NumberLiteral", "BoolLiteral", "NullExpression"} -> FALSE
      [] e.t = "SubExpression" -> HoldsCollection(e.expr)
      [] OTHER -> HoldsCollection(e.left) \/ HoldsCollection(e.right)

-----------------------------------------------------------------------------
(* Inputs                                                                  *)

MaxSmall == 3
MaxEdge == 1
MaxOperand == 1
MaxLen == 2

SmallInts == (0 - MaxSmall)..MaxSmall

\* i64 operands: small values, 25, and the values next to both ends of the range
IntegerOperands ==
    {I64(n) : n \in SmallInts \cup {25}}
        \cup {Integer(WSub(I64Max, WFromInt(k))) : k \in 0..MaxEdge}
        \cup {Integer(WAdd(I64Min, WFromInt(k))) : k \in 0..MaxEdge}

\* u64 operands: small values, and the values next to the top of the range
UIntegerOperands ==
    {U64(n) : n \in 0..MaxSmall}
        \cup {UInteger(WSub(U64Max, WFromInt(k))) : k \in 0..MaxEdge}
        \cup {UInteger(I64Min)}

\* f64 operands: halves, 25.0, the infinities and NaN
FloatOperands ==
    {Float(n, 2) : n \in SmallInts} \cup {Float(n, 1) : n \in SmallInts \cup {25}}
        \cup {Float(1, 0), Float(0 - 1, 0), Float(0, 0)}

Operands == IntegerOperands \cup UIntegerOperands \cup FloatOperands

\* an integer operand meets a float only when its cast to f64 is exact in the model
Castable(l, r) ==
    /\ l.k = "Float" /\ r.k = "Integer" => WSmallS(r.w)
    /\ l.k = "Float" /\ r.k = "UInteger" => WSmallU(r.w)
    /\ r.k = "Float" /\ l.k = "Integer" => WSmallS(l.w)
    /\ r.k = "Float" /\ l.k = "UInteger" => WSmallU(l.w)

Operators == {ADD, MINUS, MULTIPLY, DIVIDE, MODULUS, EXPONENT}
AddOperators == {ADD, MINUS}
MultiplyOperators == {MULTIPLY, DIVIDE, MODULUS}

\* numeric atoms of the generated expressions
Atoms == {IntDecimal(n + 1) : n \in 1..MaxOperand} \cup {"2.5"}

\* a o1 b o2 c
Triples ==
    {a \o o1 \o b \o o2 \o c : a \in Atoms, b \in Atoms, c \in Atoms,
                               o1 \in Operators, o2 \in Operators}

\* a o b over the operands of the documented examples, zero among them
PairAtoms == {"0", "1", "2", "7", "25", "2.5", "25.0"}
Pairs == {a \o o \o b : a \in PairAtoms, b \in PairAtoms, o \in AddOperators \cup MultiplyOperators}

\* (a o1 b) o2 c
Grouped ==
    {"(" \o a \o o1 \o b \o ")" \o o2 \o c : a \in Atoms, b \in Atoms, c \in Atoms,
        o1 \in AddOperators, o2 \in MultiplyOperators \cup {EXPONENT}}

RECURSIVE Casings(_)
\* every casing of a lower-case word
Casings(word) ==
    IF word = "" THEN {""}
    ELSE LET c == Head(word)
             up == Char(UpperLetters, IndexOf(c, LowerLetters))
         IN  {x \o rest : x \in {c, up}, rest \in Casings(Tail(word))}

Keywords == Casings("null") \cup Casings("true") \cup Casings("false")

Literals ==
    {"''", "'x'", "'abc'", "'TRUE'", "'hello world'", "'x", "x",
     "0", "10", "25.0", "0.125", "9223372036854775807", "9223372036854775808",
     "1.2.3", "12abc", "-5", "1.5x", "7."}

\* texts of the children of the generated collections
Elements == {"'x'", "12", "1/0", "'x'+1", "null"}

RECURSIVE Lists(_)
\* the comma separated lists of n elements
Lists(n) ==
    IF n = 0 THEN {""}
    ELSE IF n = 1 THEN Elements
    ELSE {l \o ", " \o e : l \in Lists(n - 1), e \in Elements}

RECURSIVE Entries(_)
\* n entries under the keys 'a', 'b', ..
Entries(n) ==
    LET key == "'" \o Char(LowerLetters, n) \o "': "
    IN  IF n = 0 THEN {""}
        ELSE IF n = 1 THEN {key \o e : e \in Elements}
        ELSE {m \o ", " \o key \o e : m \in Entries(n - 1), e \in Elements}

Collections ==
    UNION {{"[" \o l \o "]" : l \in Lists(n)} : n \in 0..MaxLen}
        \cup UNION {{"{" \o m \o "}" : m \in Entries(n)} : n \in 0..MaxLen}

\* a parenthesis, a map or a list that the input ends before closing
Unclosed ==
    {"(" \o a \o o \o b : a \in Atoms, b \in Atoms, o \in Operators}
        \cup UNION {{"[" \o l : l \in Lists(n)} : n \in 1..MaxLen}
        \cup UNION {{"{" \o m : m \in Entries(n)} : n \in 1..MaxLen}
        \cup {"(", "(1+", "{", "{'a'", "{'a':", "((1)", "(1+2]", "{'a': 1 ]", "[1 }"}

\* the expressions of the repository's tests and documentation
Corpus ==
    {"34-66*11+(45^2)/10.0", "10+25", "25/2", "25.0/2", "25.0^2", "0-7/2", "(0-7)/2", "(0-7)%2", "7/(0-2)",
     "{'a': 1, 'b': 1/0}", "['x', 12]", "(1+2", "{'a': 1", "10 )", "1 2",
     "2^3^2", "7%0", "2^63", "10^30", "[1, 10^30]", "abc", "1+", "[1,]", "{'a': 1, 'a': 2}",
     "{'a': 1, 'b': 2, 'a': 'x'}", "2^4294967297", "2^2.5"}

\* arithmetic on operands that are no numbers, or that fail
Mixed ==
    {"'x'+1/0", "1/0+'x'", "1+'x'", "'x'+'y'", "null*2", "true%2", "2-false",
     "('x'+1)+2", "1+('x'+2)", "('x'+1)-(1/0)", "[1]+1", "1/{'a': 1}", "'x'^2"}

Sources == Triples \cup Pairs \cup Grouped \cup Mixed \cup Keywords \cup Literals \cup Collections
              \cup Unclosed \cup Corpus

-----------------------------------------------------------------------------
(* The Number operators: one application of an operator to two operands    *)

InitNumber ==
    /\ checks \in BOOLEAN
    /\ lhs \in Operands /\ rhs \in Operands /\ Castable(lhs, rhs)
    /\ op = "none" /\ out = Pending
    /\ source = "" /\ toks = <<>> /\ pos = 0
    /\ parsed = Pending /\ val = Pending /\ shown = Pending
    /\ reparsed = Pending /\ reval = Pending
    /\ threads = <<>>

Apply(o) ==
    /\ op = "none"
    /\ op' = o
    /\ out' = NumberOp(o, lhs, rhs)
    /\ UNCHANGED <<checks, lhs, rhs, source, toks, pos, parsed, val, shown, reparsed, reval, threads>>

\* impl Add / Sub / Mul / Div / Rem for Number
NumberAdd == Apply("+")
NumberSub == Apply("-")
NumberMul == Apply("*")
NumberDiv == Apply("/")
NumberRem == Apply("%")

NextNumber == NumberAdd \/ NumberSub \/ NumberMul \/ NumberDiv \/ NumberRem

SpecNumber == InitNumber /\ [][NextNumber]_vars

-----------------------------------------------------------------------------
(* The parser and the tree it builds                                       *)

Init ==
    /\ checks \in BOOLEAN
    /\ source \in Sources
    /\ toks = Tokenize(source) /\ pos = 0
    /\ parsed = Pending /\ val = Pending /\ shown = Pending
    /\ reparsed = Pending /\ reval = Pending
    /\ threads = <<>>
    /\ lhs = I64(0) /\ rhs = I64(0) /\ op = "none" /\ out = Pending

\* Parser::expression
ParserExpression ==
    /\ parsed = Pending
    /\ parsed' = Expression(toks, pos)
    /\ pos' = parsed'.pos
    /\ UNCHANGED <<checks, lhs, rhs, op, out, source, toks, val, shown, reparsed, reval, threads>>

\* Expr::evaluate on the parsed tree
ExprEvaluate ==
    /\ parsed.r = "Ok" /\ val = Pending
    /\ val' = Evaluate(parsed.v, checks)
    /\ UNCHANGED <<checks, lhs, rhs, op, out, source, toks, pos, parsed, shown, reparsed, reval, threads>>

\* Display for Expr on the parsed tree
ExprDisplay ==
    /\ parsed.r = "Ok" /\ shown = Pending
    /\ ~HoldsCollection(parsed.v)
    /\ shown' = Ok(Display(parsed.v))
    /\ UNCHANGED <<checks, lhs, rhs, op, out, source, toks, pos, parsed, val, reparsed, reval, threads>>

\* Parser::from(rendered text).expression()
Reparse ==
    /\ shown.r = "Ok" /\ reparsed = Pending
    /\ reparsed' = Expression(Tokenize(shown.v), 0)
    /\ UNCHANGED <<checks, lhs, rhs, op, out, source, toks, pos, parsed, val, shown, reval, threads>>

\* Expr::evaluate on the re-parsed tree
Reevaluate ==
    /\ reparsed.r = "Ok" /\ reval = Pending
    /\ reval' = Evaluate(reparsed.v, checks)
    /\ UNCHANGED <<checks, lhs, rhs, op, out, source, toks, pos, parsed, val, shown, reparsed, threads>>

Next == ParserExpression \/ ExprEvaluate \/ ExprDisplay \/ Reparse \/ Reevaluate

Spec == Init /\ [][Next]_vars

-----------------------------------------------------------------------------
(* Equality, ordering and hashing of two Any values                        *)

\* the numbers of the compared values: equal ones in all three variants,
\* the ends of the ranges, fractions, the infinities and NaN
AnyNumbers ==
    {I64(n) : n \in (0 - 1)..MaxEdge + 1} \cup {U64(n) : n \in 0..MaxEdge + 1}
        \cup {Float(n, 1) : n \in (0 - 1)..MaxEdge + 1}
        \cup {Float(1, 2), Float(1, 0), Float(0 - 1, 0), Float(0, 0)}
        \cup {Integer(I64Max), Integer(I64Min), UInteger(U64Max), UInteger(I64Min)}

AnyTexts == {"", "a", "b", "ab"}

AnyLists ==
    {<<>>, <<AnyNumber(I64(1))>>, <<AnyNumber(Float(1, 1))>>, <<AnyNull>>,
     <<StrIn("String", "a")>>, <<StrIn("Str", "a")>>,
     <<AnyNumber(I64(1)), AnyBool(TRUE)>>}

\* maps with their iteration order; the same entries come in both orders
AnyMaps ==
    {MapIn(<<>>, EmptyMap),
     MapIn(<<"a">>, MapInsert(EmptyMap, "a", AnyNumber(I64(1)))),
     MapIn(<<"a">>, MapInsert(EmptyMap, "a", AnyNumber(Float(1, 1)))),
     MapIn(<<"a">>, MapInsert(EmptyMap, "a", AnyNumber(I64(2)))),
     MapIn(<<"a", "b">>, MapInsert(MapInsert(EmptyMap, "a", AnyNumber(I64(1))), "b", AnyNull)),
     MapIn(<<"b", "a">>, MapInsert(MapInsert(EmptyMap, "b", AnyNull), "a", AnyNumber(I64(1))))}

\* the compared values, one family for each variant
AnyFamilies ==
    <<{AnyNull}, {AnyBool(TRUE), AnyBool(FALSE)},
      {StrIn(form, x) : form \in {"String", "Str"}, x \in AnyTexts},
      {BytesIn(form, AsBytes(x)) : form \in {"Bytes", "Ref"}, x \in AnyTexts},
      {AnyNumber(n) : n \in AnyNumbers},
      {AnyList(l) : l \in AnyLists},
      AnyMaps>>

\* two Numbers meet only when the model casts them exactly
AnyCastable(a, b) == (a.t = "Number" /\ b.t = "Number") => Castable(a.v, b.v)

InitAny ==
    /\ checks = FALSE
    /\ \E i \in DOMAIN AnyFamilies, j \in DOMAIN AnyFamilies :
          lhs \in AnyFamilies[i] /\ rhs \in AnyFamilies[j]
    /\ AnyCastable(lhs, rhs)
    /\ op = "none" /\ out = Pending
    /\ source = "" /\ toks = <<>> /\ pos = 0
    /\ parsed = Pending /\ val = Pending /\ shown = Pending
    /\ reparsed = Pending /\ reval = Pending
    /\ threads = <<>>

\* lhs == rhs
AnyEqual ==
    /\ op = "none"
    /\ op' = "eq"
    /\ out' = Ok(AnyEq(lhs, rhs))
    /\ UNCHANGED <<checks, lhs, rhs, source, toks, pos, parsed, val, shown, reparsed, reval, threads>>

\* lhs.partial_cmp(&rhs)
AnyCompare ==
    /\ op = "none"
    /\ op' = "partial_cmp"
    /\ out' = Ok(AnyPartialCmp(lhs, rhs))
    /\ UNCHANGED <<checks, lhs, rhs, source, toks, pos, parsed, val, shown, reparsed, reval, threads>>

\* lhs.hash(..) and rhs.hash(..), each into a hasher of its own
AnyHashBoth ==
    /\ op = "none"
    /\ op' = "hash"
    /\ out' = Ok(<<AnyHash(lhs), AnyHash(rhs)>>)
    /\ UNCHANGED <<checks, lhs, rhs, source, toks, pos, parsed, val, shown, reparsed, reval, threads>>

NextAny == AnyEqual \/ AnyCompare \/ AnyHashBoth

SpecAny == InitAny /\ [][NextAny]_vars

-----------------------------------------------------------------------------
(* Several callers evaluating one tree at the same time.  Expr::evaluate   *)
(* borrows the tree and the container immutably; a call is a stack of      *)
(* frames, one for each node whose evaluate has been entered, and a step   *)
(* of a caller runs the frame on top up to its next call or return.        *)

MaxThreads == 2
Threads == 1..MaxThreads

\* the frame of a call of evaluate on a node: how far it got, what it holds
Frame(node) == [node |-> node, stage |-> 0, acc |-> <<>>]

Top(stack) == stack[Len(stack)]
Pop(stack) == SubSeq(stack, 1, Len(stack) - 1)

\* one place for all callers to hand a returned value to the calling frame
SharedSlot(t) == 1

\* a returned value travels on the stack of the caller that runs the call
ReturnSlot(t) == t

\* return res from the frame on top: to the frame below, or to the caller
Return(th, t, res) ==
    IF Len(th.frames[t]) = 1
    THEN [th EXCEPT !.frames[t] = <<>>, !.result[t] = res]
    ELSE [th EXCEPT !.frames[t] = Pop(@), !.ret[ReturnSlot(t)] = res]

\* keep the frame on top as f and enter evaluate on a child
Call(th, t, f, child) ==
    [th EXCEPT !.frames[t] = Append(Pop(@), f) \o <<Frame(child)>>]

\* `.try_into()?` on what a child returned
Narrow(res) == IF res.r = "Ok" THEN TryIntoNumber(res.v) ELSE res

\* impl_expression_math_op! evaluate and ExponentExpression::evaluate, by steps
StepBinary(th, t, f, r, oc) ==
    IF f.stage = 0 THEN Call(th, t, [f EXCEPT !.stage = 1], f.node.left)
    ELSE IF Narrow(r).r # "Ok" THEN Return(th, t, Narrow(r))
    ELSE IF f.stage = 1
    THEN Call(th, t, [f EXCEPT !.stage = 2, !.acc = Narrow(r).v], f.node.right)
    ELSE IF f.node.t = "ExponentExpression"
    THEN Return(th, t, ExponentResult(f.acc, Narrow(r).v, oc))
    ELSE Return(th, t, MathResult(MathOp(f.node.t), f.acc, Narrow(r).v))

\* ListLiteral::evaluate, by steps: stage counts the children entered
StepList(th, t, f, r) ==
    IF f.stage > 0 /\ r.r = "Panic" THEN Return(th, t, r)
    ELSE IF f.stage < Len(f.node.value)
    THEN Call(th, t,
              [f EXCEPT !.stage = f.stage + 1,
                        !.acc = IF f.stage > 0 /\ r.r = "Ok" THEN Append(@, r.v) ELSE @],
              f.node.value[f.stage + 1])
    ELSE Return(th, t, Ok(AnyList(IF f.stage > 0 /\ r.r = "Ok"
                                  THEN Append(f.acc, r.v) ELSE f.acc)))

RECURSIVE KeyOrder(_)
\* the order in which a HashMap yields its keys: one order for one map
KeyOrder(keys) ==
    IF keys = {} THEN <<>>
    ELSE LET k == CHOOSE x \in keys : TRUE
         IN  <<k>> \o KeyOrder(keys \ {k})

\* the entries kept so far, with the entry the last call returned
Entered(f, r) ==
    IF f.stage > 0 /\ r.r = "Ok"
    THEN MapInsert(f.acc, KeyOrder(DOMAIN f.node.value)[f.stage], r.v)
    ELSE f.acc

\* MapLiteral::evaluate, by steps
StepMap(th, t, f, r) ==
    IF f.stage > 0 /\ r.r = "Panic" THEN Return(th, t, r)
    ELSE IF f.stage < Len(KeyOrder(DOMAIN f.node.value))
    THEN Call(th, t, [f EXCEPT !.stage = f.stage + 1, !.acc = Entered(f, r)],
              f.node.value[KeyOrder(DOMAIN f.node.value)[f.stage + 1]])
    ELSE Return(th, t, Ok(AnyMap(Entered(f, r))))

\* SubExpression::evaluate, by steps
StepSub(th, t, f, r) ==
    IF f.stage = 0 THEN Call(th, t, [f EXCEPT !.stage = 1], f.node.expr)
    ELSE Return(th, t, r)

\* Expr::evaluate on the frame on top, r being what the last call returned
StepFrame(th, t, f, r, oc) ==
    CASE f.node.t \in {"StringLiteral", "NumberLiteral", "BoolLiteral", "NullExpression"} ->
            Return(th, t, Evaluate(f.node, oc))
      [] f.node.t = "SubExpression" -> StepSub(th, t, f, r)
      [] f.node.t = "ListLiteral" -> StepList(th, t, f, r)
      [] f.node.t = "MapLiteral" -> StepMap(th, t, f, r)
      [] OTHER -> StepBinary(th, t, f, r, oc)

\* the trees the callers share
ConcurrentSources ==
    {"2+3*2.5", "(1+2)*3", "2^3^2", "['x', 12, 1+2]", "[12, 'x'+1, 2-1]",
     "{'a': 1, 'b': 2+3}", "'x'+1/0", "1/0+'x'", "[1/0, 2]", "10^30", "null"}

InitConcurrent ==
    /\ checks \in BOOLEAN
    /\ source \in ConcurrentSources
    /\ toks = Tokenize(source)
    /\ parsed = Expression(toks, 0)
    /\ pos = parsed.pos
    /\ threads = [frames |-> [t \in Threads |-> <<Frame(parsed.v)>>],
                  ret |-> [t \in Threads |-> Pending],
                  result |-> [t \in Threads |-> Pending]]
    /\ val = Pending /\ shown = Pending /\ reparsed = Pending /\ reval = Pending
    /\ lhs = I64(0) /\ rhs = I64(0) /\ op = "none" /\ out = Pending

\* one caller runs its evaluate up to the next call or return
EvaluateStep ==
    \E t \in Threads :
        /\ threads.frames[t] # <<>>
        /\ threads' = StepFrame(threads, t, Top(threads.frames[t]),
                                threads.ret[ReturnSlot(t)], checks)
        /\ UNCHANGED <<checks, lhs, rhs, op, out, source, toks, pos, parsed, val, shown,
                       reparsed, reval>>

NextConcurrent == EvaluateStep

SpecConcurrent == InitConcurrent /\ [][NextConcurrent]_vars

-----------------------------------------------------------------------------
(* The lexer and the macros of the parser, called one after another on one *)
(* input.  lhs is the token handed to the call, rhs the number of tokens   *)
(* consumed before it, pos the number consumed after it.                   *)

TokenSources ==
    {"", "a , b", "NULL null", "Null", ",", "select x", "( )",
     "to_upper ( 1 )", "TO_UPPER ( 1 )", "To_Upper(1)",
     "users", "\"users\"", "\"users", "\"users x", "\"users\" y",
     "5s", "\"5s\"", "'10ms'", "\"5s\" \"", "'5s", "2h x", "'2h' x"}

\* the tokens the macros are asked for
Expected == {NULL, ARRAY_CHILD_SEP, FN_OPEN, "to_upper", "TO_UPPER", "SELECT"}

\* the wraps handed to parse_identifier and parse_duration
Wraps == {IDENTIFIER_WRAP, STRING_WRAP}

InitTokens ==
    /\ checks = FALSE
    /\ source \in TokenSources
    /\ toks = Tokenize(source)
    /\ pos = 0
    /\ lhs = "" /\ rhs = 0
    /\ op = "none" /\ out = Pending
    /\ parsed = Pending /\ val = Pending /\ shown = Pending
    /\ reparsed = Pending /\ reval = Pending
    /\ threads = <<>>

\* the frame of a call: what was called, on which token, from which position
Called(name, arg) ==
    /\ op' = name /\ lhs' = arg /\ rhs' = pos
    /\ UNCHANGED <<checks, source, toks, parsed, val, shown, reparsed, reval, threads>>

\* peak!
LexerPeak ==
    /\ Called("peak", "")
    /\ out' = LexPeak(toks, pos)
    /\ pos' = pos

\* token!
LexerToken ==
    /\ Called("token", "")
    /\ out' = LexToken(toks, pos).opt
    /\ pos' = LexToken(toks, pos).pos

\* is_next!
IsNextCall ==
    \E seen \in Expected :
        /\ Called("is_next", seen)
        /\ out' = [yes |-> IsNext(toks, pos, seen)]
        /\ pos' = pos

\* continue_if!
ContinueIfCall ==
    \E seen \in Expected :
        /\ Called("continue_if", seen)
        /\ out' = ContinueIf(toks, pos, seen)
        /\ pos' = ContinueIf(toks, pos, seen).pos

\* consume_next!
ConsumeNextCall ==
    \E expected \in Expected :
        /\ Called("consume_next", expected)
        /\ out' = ConsumeNext(toks, pos, expected)
        /\ pos' = ConsumeNext(toks, pos, expected).pos

\* Parser::parse_identifier
ParseIdentifierCall ==
    \E wrap \in Wraps :
        /\ Called("parse_identifier", wrap)
        /\ out' = ParseIdentifier(toks, pos, wrap)
        /\ pos' = ParseIdentifier(toks, pos, wrap).pos

\* Parser::parse_duration
ParseDurationCall ==
    \E wrap \in Wraps :
        /\ Called("parse_duration", wrap)
        /\ out' = ParseDuration(toks, pos, wrap)
        /\ pos' = ParseDuration(toks, pos, wrap).pos

\* the generated method of a function node
GeneratedParserCall ==
    /\ Called("function", GeneratedName)
    /\ out' = GeneratedParser(toks, pos)
    /\ pos' = GeneratedParser(toks, pos).pos

NextTokens ==
    \/ LexerPeak \/ LexerToken \/ IsNextCall \/ ContinueIfCall \/ ConsumeNextCall
    \/ ParseIdentifierCall \/ ParseDurationCall \/ GeneratedParserCall

SpecTokens == InitTokens /\ [][NextTokens]_vars

-----------------------------------------------------------------------------
(* The functions of the parser called at any position of an input.  rhs is *)
(* the number of tokens consumed when the call, or the loop, starts and    *)
(* pos the number consumed when it returns.                                *)

ProgressSources == Corpus \cup Mixed \cup {"[1 }", "{'a': 1 ]", "(1+2]", "((1)", "[12, 'x', 2-1]"}

InitProgress ==
    /\ checks = FALSE
    /\ source \in ProgressSources
    /\ toks = Tokenize(source)
    /\ pos \in 0..Len(toks)
    /\ lhs = "" /\ rhs = 0
    /\ op = "none" /\ out = Pending
    /\ parsed = Pending /\ val = Pending /\ shown = Pending
    /\ reparsed = Pending /\ reval = Pending
    /\ threads = <<>>

\* a function of the parser was called with the lexer at position start
Returns(name, start) ==
    /\ op' = name /\ rhs' = start
    /\ pos' = out'.pos
    /\ UNCHANGED <<checks, lhs, source, toks, parsed, val, shown, reparsed, reval, threads>>

\* Parser::expression
ExpressionCall ==
    /\ out' = Expression(toks, pos)
    /\ Returns("expression", pos)

\* Parser::parse_expression
ParseExpressionCall ==
    /\ out' = ParseExpression(toks, pos)
    /\ Returns("parse_expression", pos)

\* the loop of parse_expression_exponent: it is entered with the tree that
\* parse_expression has just returned as its left operand
ExponentLoopCall ==
    /\ op = "parse_expression" /\ out.r = "Ok"
    /\ out' = ExponentLoop(toks, out)
    /\ Returns("exponent_loop", pos)

\* the loop of parse_expression_multiply: its left operand is what
\* parse_expression_exponent, which ends with the exponent loop, returned
MultiplyLoopCall ==
    /\ op = "exponent_loop" /\ out.r = "Ok"
    /\ out' = MultiplyLoop(toks, out)
    /\ Returns("multiply_loop", pos)

\* the loop of parse_expression_add: its left operand is what
\* parse_expression_multiply, which ends with the multiply loop, returned
AddLoopCall ==
    /\ op = "multiply_loop" /\ out.r = "Ok"
    /\ out' = AddLoop(toks, out)
    /\ Returns("add_loop", pos)

NextProgress ==
    \/ ExpressionCall \/ ParseExpressionCall
    \/ AddLoopCall \/ MultiplyLoopCall \/ ExponentLoopCall

SpecProgress == InitProgress /\ [][NextProgress]_vars

-----------------------------------------------------------------------------
(* Arithmetic modulo 2^64, stated limb by limb and bit by bit               *)

\* limb i of a + b modulo 2^64, with the carry that comes into it
RECURSIVE CarryInto(_, _, _)
CarryInto(a, b, i) ==
    IF i = 1 THEN 0
    ELSE (a[i - 1] + b[i - 1] + CarryInto(a, b, i - 1)) \div LimbBase

SumLimb(a, b, i) == (a[i] + b[i] + CarryInto(a, b, i)) % LimbBase

SumMod64(a, b) == <<SumLimb(a, b, 1), SumLimb(a, b, 2), SumLimb(a, b, 3), SumLimb(a, b, 4)>>

RECURSIVE ProductFrom(_, _, _, _)
\* a * b modulo 2^64: the shifted copies of a for the bits set in b, from bit i on
ProductFrom(a, b, i, acc) ==
    IF i = 16 * LimbCount \/ acc[1] < 0 \/ a[1] < 0 THEN acc
    ELSE ProductFrom(SumMod64(a, a), b, i + 1,
                     IF WBit(b, i) = 1 THEN SumMod64(acc, a) ELSE acc)

ProductMod64(a, b) == ProductFrom(a, b, 0, WZero)

\* C1: Integer(a) op Integer(b) with op in {+, -, *} never traps and is the
\* Integer of (a op b) modulo 2^64; Integer(i64::MAX) + Integer(1) is
\* Integer(i64::MIN).
C1_IntegerWraps ==
    (op \in {"+", "-", "*"} /\ lhs.k = "Integer" /\ rhs.k = "Integer") =>
        /\ out.r = "Ok"
        /\ out.v.k = "Integer"
        /\ op = "+" => out.v.w = SumMod64(lhs.w, rhs.w)
        /\ op = "-" => SumMod64(out.v.w, rhs.w) = lhs.w
        /\ op = "*" => out.v.w = ProductMod64(lhs.w, rhs.w)
        /\ (op = "+" /\ lhs.w = I64Max /\ rhs.w = WOne) => out.v.w = I64Min

C1_Witness ==
    /\ op = "+" /\ lhs = Integer(I64Max) /\ rhs = I64(1)
    /\ out = Ok(Integer(I64Min))

-----------------------------------------------------------------------------
(* Precedence and associativity, read off the token sequence               *)

\* the precedence level of an operator token
Level(o) == IF o \in AddOperators THEN 1 ELSE IF o \in MultiplyOperators THEN 2 ELSE 3

\* the token is a number the parser accepts
IsAtom(tok) == StartsNumber(tok) /\ ParseNumberLiteral(<<tok>>, 0).r = "Ok"

\* the literal node of a number token
AtomOf(tok) == ParseNumberLiteral(<<tok>>, 0).v

\* the tokens are a o1 b o2 c
IsTriple(ts) ==
    /\ Len(ts) = 5
    /\ IsAtom(ts[1]) /\ IsAtom(ts[3]) /\ IsAtom(ts[5])
    /\ ts[2] \in Operators /\ ts[4] \in Operators

\* the tokens are ( a o1 b ) o2 c
IsGrouped(ts) ==
    /\ Len(ts) = 7
    /\ ts[1] = SUB_EXPR_OPEN /\ ts[5] = SUB_EXPR_CLOSE
    /\ IsAtom(ts[2]) /\ IsAtom(ts[4]) /\ IsAtom(ts[7])
    /\ ts[3] \in Operators /\ ts[6] \in Operators

\* (a o1 b) o2 c and a o1 (b o2 c) as trees
LeftTree(a, o1, b, o2, c) ==
    BinaryExpression(o2, BinaryExpression(o1, AtomOf(a), AtomOf(b)), AtomOf(c))
RightTree(a, o1, b, o2, c) ==
    BinaryExpression(o1, AtomOf(a), BinaryExpression(o2, AtomOf(b), AtomOf(c)))
GroupedTree(a, o1, b, o2, c) ==
    BinaryExpression(o2, SubExpression(BinaryExpression(o1, AtomOf(a), AtomOf(b))), AtomOf(c))

\* the value of a number token, and of x o y for two outcomes
NumberOf(tok) == Ok(AnyNumber(AtomOf(tok).value))
Calc(o, x, y, oc) ==
    IF x.r # "Ok" THEN x
    ELSE IF y.r # "Ok" THEN y
    ELSE IF o = EXPONENT THEN ExponentResult(x.v.v, y.v.v, oc)
    ELSE MathResult(o, x.v.v, y.v.v)

\* C2: exponent binds tighter than * / %, which bind tighter than + -, and a
\* parenthesized sub-expression is an atom: a o1 b o2 c with o2 the tighter
\* operator is a o1 (b o2 c), with o1 the tighter one it is (a o1 b) o2 c,
\* and (a o1 b) o2 c keeps its group; each evaluates accordingly, and
\* '34-66*11+(45^2)/10.0' evaluates to Number(-489.5).
C2_Precedence ==
    /\ (IsTriple(toks) /\ Level(toks[2]) < Level(toks[4]) /\ parsed # Pending) =>
          /\ parsed = POk(RightTree(toks[1], toks[2], toks[3], toks[4], toks[5]), 5)
          /\ val # Pending =>
                val = Calc(toks[2], NumberOf(toks[1]),
                           Calc(toks[4], NumberOf(toks[3]), NumberOf(toks[5]), checks),
                           checks)
    /\ (IsTriple(toks) /\ Level(toks[2]) > Level(toks[4]) /\ parsed # Pending) =>
          /\ parsed = POk(LeftTree(toks[1], toks[2], toks[3], toks[4], toks[5]), 5)
          /\ val # Pending =>
                val = Calc(toks[4],
                           Calc(toks[2], NumberOf(toks[1]), NumberOf(toks[3]), checks),
                           NumberOf(toks[5]), checks)
    /\ (IsGrouped(toks) /\ parsed # Pending) =>
          /\ parsed = POk(GroupedTree(toks[2], toks[3], toks[4], toks[6], toks[7]), 7)
          /\ val # Pending =>
                val = Calc(toks[6],
                           Calc(toks[3], NumberOf(toks[2]), NumberOf(toks[4]), checks),
                           NumberOf(toks[7]), checks)
    /\ (source = "34-66*11+(45^2)/10.0" /\ val # Pending) =>
          val = Ok(AnyNumber(Float(0 - 979, 2)))

C2_Witness ==
    /\ source = "34-66*11+(45^2)/10.0"
    /\ val = Ok(AnyNumber(Float(0 - 979, 2)))

\* C3: operators of one precedence level associate to the left at every
\* level, exponent included: a o1 b o2 c with o1 and o2 of the same level is
\* the tree ((a o1 b) o2 c).
C3_LeftAssociative ==
    (IsTriple(toks) /\ Level(toks[2]) = Level(toks[4]) /\ parsed # Pending) =>
        parsed = POk(LeftTree(toks[1], toks[2], toks[3], toks[4], toks[5]), 5)

C3_Witness ==
    /\ source = "2^3^2"
    /\ parsed = POk(ExponentExpression(ExponentExpression(NumberLiteral(I64(2)),
                                                          NumberLiteral(I64(3))),
                                       NumberLiteral(I64(2))), 5)
    /\ val = Ok(AnyNumber(I64(64)))

-----------------------------------------------------------------------------
(* Number promotion in parsed arithmetic                                   *)

\* a / b rounded toward zero, for mathematical integers
Quotient(a, b) == Sign(a) * Sign(b) * (IAbs(a) \div IAbs(b))

\* the Number a child of the parsed root evaluates to
OperandOf(child) == EvaluateNumber(child, checks).v

\* C4: for + - * / % the result is a Float when either operand is a Float,
\* and an Integer for two Integers, the division truncating toward zero;
\* '10+25' is Integer 35, '25/2' is Integer 12 and '25.0/2' is Float 12.5.
C4_Promotion ==
    /\ (parsed.r = "Ok" /\ IsMath(parsed.v.t) /\ val.r = "Ok") =>
          /\ val.v.t = "Number"
          /\ ("Float" \in {OperandOf(parsed.v.left).k, OperandOf(parsed.v.right).k}) =>
                val.v.v.k = "Float"
          /\ (OperandOf(parsed.v.left).k = "Integer"
                /\ OperandOf(parsed.v.right).k = "Integer") =>
                /\ val.v.v.k = "Integer"
                /\ (parsed.v.t = "DivideExpression" /\ WSmallS(OperandOf(parsed.v.left).w)
                      /\ WSmallS(OperandOf(parsed.v.right).w)) =>
                      val.v.v.w = WFromInt(Quotient(WToIntS(OperandOf(parsed.v.left).w),
                                                    WToIntS(OperandOf(parsed.v.right).w)))
    /\ (source = "10+25" /\ val # Pending) => val = Ok(AnyNumber(I64(35)))
    /\ (source = "25/2" /\ val # Pending) => val = Ok(AnyNumber(I64(12)))
    /\ (source = "25.0/2" /\ val # Pending) => val = Ok(AnyNumber(Float(25, 2)))

C4_Witness ==
    /\ source = "(0-7)/2"
    /\ val = Ok(AnyNumber(I64(0 - 3)))

-----------------------------------------------------------------------------
(* Collections                                                             *)

\* the outcomes of the children of a list, in the order written
ChildOutcomes(children, oc) == [i \in 1..Len(children) |-> Evaluate(children[i], oc)]

IsOk(res) == res.r = "Ok"

\* the values of the children that evaluate, in the order written
KeptValues(children, oc) ==
    LET ok == SelectSeq(ChildOutcomes(children, oc), IsOk)
    IN  [i \in 1..Len(ok) |-> ok[i].v]

\* the entries of a map whose value evaluates
KeptEntries(m, oc) ==
    [k \in {x \in DOMAIN m : Evaluate(m[x], oc).r = "Ok"} |-> Evaluate(m[k], oc).v]

\* two values are the same value of the same variant
SameAny(a, b) == a.t = b.t /\ a = b

\* two lists hold the same values in the same order
SameList(x, y) == Len(x) = Len(y) /\ \A i \in 1..Len(x) : SameAny(x[i], y[i])

\* two maps hold the same values under the same keys
SameMap(x, y) == DOMAIN x = DOMAIN y /\ \A k \in DOMAIN x : SameAny(x[k], y[k])

\* C5: evaluating a MapLiteral or a ListLiteral always returns Ok, with
\* exactly the entries / elements whose child evaluated successfully.
C5_CollectionsAlwaysOk ==
    /\ (parsed.r = "Ok" /\ parsed.v.t = "ListLiteral" /\ val # Pending) =>
          /\ val.r = "Ok" /\ val.v.t = "List"
          /\ SameList(val.v.v, KeptValues(parsed.v.value, checks))
    /\ (parsed.r = "Ok" /\ parsed.v.t = "MapLiteral" /\ val # Pending) =>
          /\ val.r = "Ok" /\ val.v.t = "Map"
          /\ SameMap(val.v.v, KeptEntries(parsed.v.value, checks))

\* C6: an integer division or modulus by zero is a failure reported as a
\* value, never a panic: the node returns an error, and
\* "{'a': 1, 'b': 1/0}" evaluates to the map with the only entry 'a': 1.
C6_DivisionByZeroIsAValue ==
    /\ (parsed.r = "Ok" /\ parsed.v.t \in {"DivideExpression", "ModulusExpression"}
          /\ val # Pending
          /\ EvaluateNumber(parsed.v.left, checks).r = "Ok"
          /\ EvaluateNumber(parsed.v.right, checks).r = "Ok"
          /\ OperandOf(parsed.v.left).k = "Integer"
          /\ OperandOf(parsed.v.right) = I64(0)) =>
          val.r = "Err"
    /\ (source = "{'a': 1, 'b': 1/0}" /\ val # Pending) =>
          /\ val.r = "Ok" /\ val.v.t = "Map"
          /\ SameMap(val.v.v, [k \in {"a"} |-> AnyNumber(I64(1))])

\* C7: a list literal keeps the order of its children: the evaluated list is
\* the values of the children that evaluate, in the order written, and
\* "['x', 12]" evaluates to [Str("x"), Number(12)].
C7_ListOrder ==
    /\ (parsed.r = "Ok" /\ parsed.v.t = "ListLiteral" /\ val.r = "Ok") =>
          /\ val.v.t = "List"
          /\ SameList(val.v.v, KeptValues(parsed.v.value, checks))
    /\ (source = "['x', 12]" /\ val # Pending) =>
          /\ val.r = "Ok" /\ val.v.t = "List"
          /\ SameList(val.v.v, <<AnyStr("x"), AnyNumber(I64(12))>>)

C7_Witness ==
    /\ source = "['x', 12]"
    /\ val = Ok(AnyList(<<AnyStr("x"), AnyNumber(I64(12))>>))

-----------------------------------------------------------------------------
(* Errors of the parser                                                    *)

\* the character c occurs in the text
Contains(text, c) == \E i \in 1..Len(text) : SubSeq(text, i, i) = c

\* the message of the error shows the token c
Names(err, c) ==
    \/ Contains(err.fmt, c)
    \/ \E i \in DOMAIN err.args : Contains(err.args[i], c)

\* the tokens are ( a o b and the input ends there
IsOpenGroup(ts) ==
    /\ Len(ts) = 4
    /\ ts[1] = SUB_EXPR_OPEN /\ IsAtom(ts[2]) /\ ts[3] \in Operators /\ IsAtom(ts[4])

\* C8: an expression with an unclosed parenthesis or an unclosed map, such
\* as '(1+2' or "{'a': 1", is refused with an end-of-input or invalid-query
\* error whose message names the token that was expected.
C8_UnclosedNamesExpected ==
    /\ (IsOpenGroup(toks) /\ parsed # Pending) =>
          /\ parsed.r = "Err"
          /\ parsed.v.kind \in {"UnexpectedEOF", "InvalidQuery"}
          /\ Names(parsed.v, SUB_EXPR_CLOSE)
    /\ (source = "{'a': 1" /\ parsed # Pending) =>
          /\ parsed.r = "Err"
          /\ parsed.v.kind \in {"UnexpectedEOF", "InvalidQuery"}
          /\ Names(parsed.v, MAP_WRAP_END) \/ Names(parsed.v, MAP_CHILD_SEP)

-----------------------------------------------------------------------------
(* Literals                                                                *)

IsLiteral(e) ==
    e.t \in {"StringLiteral", "NumberLiteral", "BoolLiteral", "NullExpression"}

\* C9: a string, number, boolean or null literal the parser produced, shown
\* with Display and parsed again, parses, and evaluates to an equal result.
C9_DisplayRoundTrip ==
    (parsed.r = "Ok" /\ IsLiteral(parsed.v) /\ reparsed # Pending) =>
        /\ reparsed.r = "Ok"
        /\ (val # Pending /\ reval # Pending) =>
              /\ val.r = "Ok" /\ reval.r = "Ok"
              /\ AnyEq(reval.v, val.v)

\* C10: literal atoms evaluate to their value: "''" to Str(""), null to
\* Null, true and false to Bool(true) and Bool(false), in any casing of
\* the keyword.
C10_LiteralAtoms ==
    /\ (source = "''" /\ parsed # Pending) =>
          /\ parsed = POk(StringLiteral(""), 2)
          /\ val # Pending => val = Ok(AnyStr(""))
    /\ (source \in Casings("null") /\ parsed # Pending) =>
          /\ parsed = POk(NullExpression, 1)
          /\ val # Pending => val = Ok(AnyNull)
    /\ (source \in Casings("true") /\ parsed # Pending) =>
          /\ parsed = POk(BoolLiteral(TRUE), 1)
          /\ val # Pending => val = Ok(AnyBool(TRUE))
    /\ (source \in Casings("false") /\ parsed # Pending) =>
          /\ parsed = POk(BoolLiteral(FALSE), 1)
          /\ val # Pending => val = Ok(AnyBool(FALSE))

C10_Witness ==
    /\ source = "fAlSe"
    /\ val = Ok(AnyBool(FALSE))

-----------------------------------------------------------------------------
(* The parser on tokens that start no atom                                 *)

\* C11: Parser.expression returns Ok(tree) or an error value and never
\* panics: a token at an atom position that is no keyword, no wrapper and no
\* number, or the end of the input there ('abc', '1+', '(', '[]', '[1,]'),
\* makes the parse fail with a returned error.
C11_ParserNeverPanics ==
    /\ parsed # Pending => parsed.r \in {"Ok", "Err"}
    /\ (source \in {"abc", "1+", "(", "[]", "[1,]"} /\ parsed # Pending) =>
          parsed.r = "Err"

-----------------------------------------------------------------------------
(* Integer with UInteger                                                   *)

\* the result the sign of the Integer operand a selects for l op r
SignSelected(o, a, l, r) ==
    IF WNegative(a) THEN AsInteger(WrappingI64Op(o, l, r))
    ELSE AsUInteger(WrappingU64Op(o, l, r))

\* C12: for + - * / % on Integer(a) and UInteger(b), in either order, the
\* result is an Integer in wrapping signed arithmetic when a < 0 and a
\* UInteger in wrapping unsigned arithmetic when a >= 0.
C12_SignSelectsVariant ==
    /\ (op # "none" /\ lhs.k = "Integer" /\ rhs.k = "UInteger" /\ out.r = "Ok") =>
          out = SignSelected(op, lhs.w, lhs.w, rhs.w)
    /\ (op # "none" /\ lhs.k = "UInteger" /\ rhs.k = "Integer" /\ out.r = "Ok") =>
          out = SignSelected(op, rhs.w, lhs.w, rhs.w)

-----------------------------------------------------------------------------
(* Equality against hashing and ordering                                   *)

\* C13: hashing is consistent with equality: values that compare equal hash
\* equal, Numbers equal across representations, Str and Bytes owned or
\* borrowed, and maps with the same entries in another order included.
C13_HashFollowsEq ==
    (op = "hash" /\ AnyEq(lhs, rhs)) => SameHash(out.v[1], out.v[2])

\* C14: Any values of different variants are not equal and not ordered,
\* except that Null is Less than every other value and every other value is
\* Greater than Null.
C14_CrossVariant ==
    (op # "none" /\ lhs.t # rhs.t) =>
        /\ op = "eq" => out.v = FALSE
        /\ op = "partial_cmp" =>
              out.v = IF lhs.t = "Null" THEN "lt"
                      ELSE IF rhs.t = "Null" THEN "gt"
                      ELSE "none"

C14_Witness ==
    /\ op = "partial_cmp"
    /\ lhs.t = "Null" /\ rhs.t = "Number" /\ rhs.v = I64(0 - 1)
    /\ out.v = "lt"

-----------------------------------------------------------------------------
(* Errors of the arithmetic nodes                                          *)

\* the outcomes of the two children of the parsed root
LeftOutcome == Evaluate(parsed.v.left, checks)
RightOutcome == Evaluate(parsed.v.right, checks)

IsNumber(res) == res.r = "Ok" /\ res.v.t = "Number"

\* the evaluation returned the error e
Returned(res, e) == res.r = "Err" /\ res.v = e

\* C15: an add, subtract, multiply, divide or modulus node evaluates its
\* left child before its right child; the error of a child is returned, a
\* child that is no Number gives the invalid-type error, the left child's
\* failure comes first, and the result is Ok(Number(left op right)) only
\* when both children are Numbers.
C15_LeftThenRight ==
    (parsed.r = "Ok" /\ IsMath(parsed.v.t) /\ val # Pending) =>
        /\ LeftOutcome.r = "Err" => Returned(val, LeftOutcome.v)
        /\ (LeftOutcome.r = "Ok" /\ ~IsNumber(LeftOutcome)) => Returned(val, InvalidType)
        /\ (IsNumber(LeftOutcome) /\ RightOutcome.r = "Err") =>
              Returned(val, RightOutcome.v)
        /\ (IsNumber(LeftOutcome) /\ RightOutcome.r = "Ok" /\ ~IsNumber(RightOutcome)) =>
              Returned(val, InvalidType)
        /\ val.r = "Ok" =>
              /\ IsNumber(LeftOutcome) /\ IsNumber(RightOutcome)
              /\ val.v.t = "Number"
              /\ val.v.v = NumberOp(MathOp(parsed.v.t), LeftOutcome.v.v, RightOutcome.v.v).v

C15_Witness ==
    /\ source = "'x'+1/0"
    /\ Returned(val, InvalidType)

-----------------------------------------------------------------------------
(* Concurrent evaluation                                                   *)

\* two outcomes are the same outcome
SameOutcome(x, y) ==
    /\ x.r = y.r
    /\ x.r = "Ok" => SameAny(x.v, y.v)
    /\ x.r \in {"Err", "Panic"} => x.v = y.v

-----------------------------------------------------------------------------
(* The kinds of the parser's errors                                        *)

\* the parse failed where must_token! found the stream exhausted
FailedAtEnd ==
    /\ parsed.r = "Err"
    /\ ~LexPeak(toks, parsed.pos).some
    /\ parsed.v = MustToken(toks, parsed.pos).v

\* C17: when the parser requires a token and the token stream is exhausted,
\* the error returned is of the kind Error::UnexpectedEOF, which tells it
\* apart from an invalid-query error.
C17_EofKind == FailedAtEnd => parsed.v.kind = "UnexpectedEOF"

-----------------------------------------------------------------------------
(* String literals                                                         *)

RECURSIVE LeftmostLeaf(_)
\* the node parsed first: the left end of a chain of binary nodes
LeftmostLeaf(e) ==
    IF IsMath(e.t) \/ e.t = "ExponentExpression" THEN LeftmostLeaf(e.left) ELSE e

\* the token at position i, or the empty text past the end
TokenAt(i) == IF i <= Len(toks) THEN toks[i] ELSE ""

\* the input opens with a quote
OpensString == parsed # Pending /\ Len(toks) > 0 /\ toks[1] = STRING_WRAP

\* the first node of the parsed tree is the string literal of the text x
FirstIsString(x) ==
    /\ LeftmostLeaf(parsed.v).t = "StringLiteral"
    /\ LeftmostLeaf(parsed.v).value = x

\* C18: string_literal consumes the opening quote; a closing quote right
\* after it gives the empty string; otherwise exactly one token is the
\* content, verbatim, and the token after it must be the closing quote.
\* Content of more than one token, or a missing closing quote, is a parse
\* error and never a truncated or merged string.
C18_StringLiteral ==
    OpensString =>
        /\ (TokenAt(2) # STRING_WRAP /\ TokenAt(3) # STRING_WRAP) => parsed.r = "Err"
        /\ (TokenAt(2) # STRING_WRAP /\ Len(toks) > 2 /\ toks[3] # STRING_WRAP) =>
              parsed.v.args = <<STRING_WRAP, toks[3]>>
        /\ (TokenAt(2) # STRING_WRAP /\ Len(toks) < 3) => FailedAtEnd
        /\ (TokenAt(2) = STRING_WRAP /\ parsed.r = "Ok") => FirstIsString("")
        /\ (TokenAt(2) # STRING_WRAP /\ parsed.r = "Ok") => FirstIsString(toks[2])

C18_Witness ==
    /\ source = "'hello world'"
    /\ parsed.r = "Err"
    /\ parsed.v.args = <<STRING_WRAP, "world">>

-----------------------------------------------------------------------------
(* Number literals                                                         *)

\* the input opens with an atom that starts with a digit or '-'
OpensNumber == parsed # Pending /\ Len(toks) > 0 /\ StartsNumber(toks[1])

\* the kind the token is read as: float on exactly one '.', else integer
KindOf(tok) == IF CountChar(tok, ".") = 1 THEN "float" ELSE "integer"

\* str::parse of the token as its kind
Read(tok) == IF KindOf(tok) = "float" THEN ParseF64(tok) ELSE ParseI64(tok)

\* the text opens with the prefix
StartsWith(text, prefix) ==
    Len(text) >= Len(prefix) /\ SubSeq(text, 1, Len(prefix)) = prefix

\* the first node of the parsed tree is a number literal of the variant k
FirstIsNumber(k) ==
    /\ LeftmostLeaf(parsed.v).t = "NumberLiteral"
    /\ LeftmostLeaf(parsed.v).value.k = k

\* C19: an atom that starts with a digit or '-' is parsed as a number
\* literal: a Float when the token holds exactly one '.', else a 64-bit
\* signed Integer; a token that does not parse as that kind ('1.2.3',
\* '12abc', a lone '-', an integer outside i64) yields an invalid-query
\* error whose message names the expected kind.
C19_NumberLiteral ==
    OpensNumber =>
        /\ parsed.r = "Ok" =>
              FirstIsNumber(IF KindOf(toks[1]) = "float" THEN "Float" ELSE "Integer")
        /\ ~Read(toks[1]).ok =>
              /\ parsed.r = "Err"
              /\ parsed.v.kind = "InvalidQuery"
              /\ StartsWith(parsed.v.fmt, "expected " \o KindOf(toks[1]))
        /\ source \in {"1.2.3", "12abc", "-5", "9223372036854775808"} =>
              parsed.r = "Err" /\ StartsWith(parsed.v.fmt, "expected integer")
        /\ source = "1.5x" => parsed.r = "Err" /\ StartsWith(parsed.v.fmt, "expected float")
        /\ source \in {"25.0", "0.125", "7."} => parsed.r = "Ok" /\ FirstIsNumber("Float")
        /\ source \in {"0", "10", "9223372036854775807"} =>
              parsed.r = "Ok" /\ FirstIsNumber("Integer")

C19_Witness ==
    /\ source = "1.2.3"
    /\ OpensNumber
    /\ parsed.r = "Err"
    /\ StartsWith(parsed.v.fmt, "expected integer")

-----------------------------------------------------------------------------
(* The token after a child of a map or of a list                           *)

\* the message of the error shows the token
Mentions(err, tok) == \E i \in DOMAIN err.args : err.args[i] = tok

\* what holds when a child has been parsed up to position p: at the end of
\* the input the parse fails there, and on a token that is neither the
\* separator nor the end it fails naming the three of them
Continuation(p, sep, end) ==
    IF p >= Len(toks) THEN FailedAtEnd
    ELSE toks[p + 1] \notin {sep, end} =>
            /\ parsed.r = "Err"
            /\ parsed.v.kind = "InvalidQuery"
            /\ parsed.pos = p + 1
            /\ Mentions(parsed.v, sep) /\ Mentions(parsed.v, end)
            /\ Mentions(parsed.v, toks[p + 1])

\* a key of one token and its colon stand at position p
KeyAt(p) ==
    /\ Len(toks) >= p + 4
    /\ toks[p + 1] = STRING_WRAP /\ toks[p + 2] # STRING_WRAP
    /\ toks[p + 3] = STRING_WRAP /\ toks[p + 4] = MAP_CHILD_SET

\* the rule for the child at position p, and for the one after it
ListRule(p) ==
    LET first == Expression(toks, p)
        second == Expression(toks, first.pos + 1)
    IN  first.r = "Ok" =>
            /\ Continuation(first.pos, ARRAY_CHILD_SEP, ARRAY_WRAP_END)
            /\ (TokenAt(first.pos + 1) = ARRAY_CHILD_SEP /\ second.r = "Ok") =>
                  Continuation(second.pos, ARRAY_CHILD_SEP, ARRAY_WRAP_END)
            /\ (TokenAt(first.pos + 1) = ARRAY_WRAP_END /\ Len(toks) = first.pos + 1) =>
                  /\ parsed.r = "Ok" /\ parsed.v.t = "ListLiteral"
                  /\ Len(parsed.v.value) = 1

\* the rule for the pair whose key stands at position p, and for the next
MapRule(p) ==
    LET first == Expression(toks, p + 4)
        second == Expression(toks, first.pos + 5)
    IN  (KeyAt(p) /\ first.r = "Ok") =>
            /\ Continuation(first.pos, MAP_CHILD_SEP, MAP_WRAP_END)
            /\ (TokenAt(first.pos + 1) = MAP_CHILD_SEP /\ KeyAt(first.pos + 1)
                    /\ second.r = "Ok") =>
                  Continuation(second.pos, MAP_CHILD_SEP, MAP_WRAP_END)
            /\ (TokenAt(first.pos + 1) = MAP_WRAP_END /\ Len(toks) = first.pos + 1) =>
                  /\ parsed.r = "Ok" /\ parsed.v.t = "MapLiteral"
                  /\ DOMAIN parsed.v.value = {toks[p + 2]}

\* C20: in a map literal the token after each 'key': <expression> pair must
\* be ',' or '}', and in a list literal the token after each element must be
\* ',' or ']'.  Any other token there is an invalid-query error that names
\* both accepted continuations and the offending token, and the end of the
\* input there is an error.
C20_AfterChild ==
    (parsed # Pending /\ Len(toks) > 0) =>
        /\ toks[1] = ARRAY_WRAP => ListRule(1)
        /\ toks[1] = MAP_WRAP => MapRule(1)

C20_Witness ==
    /\ source = "{'a': 1 ]"
    /\ parsed.r = "Err"
    /\ Mentions(parsed.v, MAP_CHILD_SEP) /\ Mentions(parsed.v, MAP_WRAP_END)
    /\ Mentions(parsed.v, ARRAY_WRAP_END)

-----------------------------------------------------------------------------
(* Keys of a map literal                                                   *)

RECURSIVE WrittenPairs(_)
\* the pairs written from position p on, as <<key, tree of the value>>
WrittenPairs(p) ==
    IF ~KeyAt(p) \/ Expression(toks, p + 4).r # "Ok" THEN <<>>
    ELSE LET value == Expression(toks, p + 4)
         IN  <<<<toks[p + 2], value.v>>>>
                 \o (IF TokenAt(value.pos + 1) = MAP_CHILD_SEP
                     THEN WrittenPairs(value.pos + 1) ELSE <<>>)

\* the place of the last pair written under the key
LastWritten(pairs, key) ==
    CHOOSE i \in DOMAIN pairs :
        /\ pairs[i][1] = key
        /\ \A j \in DOMAIN pairs : pairs[j][1] = key => j <= i

\* two trees are the same tree
SameTree(a, b) == a.t = b.t /\ a = b

\* the input is a map literal and nothing else, and it parsed
IsWholeMap ==
    /\ parsed.r = "Ok" /\ parsed.v.t = "MapLiteral"
    /\ parsed.pos = Len(toks)

-----------------------------------------------------------------------------
(* Integer compared with UInteger                                          *)

\* lhs and rhs are Numbers, one an Integer and the other a UInteger
IsSignedPair ==
    /\ lhs.t = "Number" /\ rhs.t = "Number"
    /\ {lhs.v.k, rhs.v.k} = {"Integer", "UInteger"}

\* the Integer of the pair
SignedOf == IF lhs.v.k = "Integer" THEN lhs.v.w ELSE rhs.v.w

\* the ordering as seen from the other operand
Reverse(o) == IF o = "lt" THEN "gt" ELSE IF o = "gt" THEN "lt" ELSE o

\* C22 as stated: equality and ordering between Integer(a) and UInteger(b)
\* follow the rule of arithmetic: for a < 0 the comparison is made in signed
\* space, a against b cast to i64, and for a >= 0 in unsigned space, a cast
\* to u64 against b.
C22_CastCompare ==
    (IsSignedPair /\ op \in {"eq", "partial_cmp"}) =>
        /\ op = "eq" => out.v = (lhs.v.w = rhs.v.w)
        /\ op = "partial_cmp" =>
              out.v = IF WNegative(SignedOf) THEN I64Cmp(lhs.v.w, rhs.v.w)
                      ELSE U64Cmp(lhs.v.w, rhs.v.w)

\* C22, amended: for a < 0 nothing is cast: Integer(a) is not equal to
\* UInteger(b) and orders before it; for a >= 0 the comparison is made in
\* unsigned space, a cast to u64 against b.
C22_SignThenUnsigned ==
    (IsSignedPair /\ op \in {"eq", "partial_cmp"}) =>
        /\ (op = "eq" /\ WNegative(SignedOf)) => out.v = FALSE
        /\ (op = "eq" /\ ~WNegative(SignedOf)) => out.v = (lhs.v.w = rhs.v.w)
        /\ (op = "partial_cmp" /\ WNegative(SignedOf)) =>
              out.v = IF lhs.v.k = "Integer" THEN "lt" ELSE "gt"
        /\ (op = "partial_cmp" /\ ~WNegative(SignedOf)) =>
              out.v = U64Cmp(lhs.v.w, rhs.v.w)

C22_Witness ==
    /\ op = "partial_cmp" /\ IsSignedPair
    /\ lhs.v = I64(0 - 1) /\ rhs.v = UInteger(I64Min)
    /\ out.v = "lt"

\* the value of an Integer or a UInteger plus 2^63, which is never negative,
\* as five limbs: an i64 has its sign bit flipped, a u64 carries into the fifth
Biased(n) ==
    <<n.w[1], n.w[2], n.w[3], (n.w[4] + HalfBase) % LimbBase,
      IF n.k = "UInteger" /\ n.w[4] >= HalfBase THEN 1 ELSE 0>>

RECURSIVE LimbsCmp(_, _, _)
\* the order of two numbers given by their limbs, from limb i downwards
LimbsCmp(x, y, i) ==
    IF i = 0 THEN "eq"
    ELSE IF x[i] < y[i] THEN "lt"
    ELSE IF x[i] > y[i] THEN "gt"
    ELSE LimbsCmp(x, y, i - 1)

\* the order of the values of two integer Numbers, as numbers
ValueCmp(x, y) == LimbsCmp(Biased(x), Biased(y), 5)

\* C23: for every Integer(a) and UInteger(b), in either operand order,
\* partial_cmp returns the ordering of the values a and b as numbers, with
\* no wraparound, == holds exactly when the values are equal, and
\* partial_cmp(x, y) is the reverse of partial_cmp(y, x).
C23_ValueOrder ==
    IsSignedPair =>
        /\ op = "partial_cmp" =>
              /\ out.v = ValueCmp(lhs.v, rhs.v)
              /\ out.v = Reverse(NumberPartialCmp(rhs.v, lhs.v))
        /\ op = "eq" => out.v = (ValueCmp(lhs.v, rhs.v) = "eq")

C23_Witness ==
    /\ op = "eq" /\ IsSignedPair
    /\ lhs.v = UInteger(U64Max) /\ rhs.v = I64(0 - 1)
    /\ out.v = FALSE

-----------------------------------------------------------------------------
(* The exponent node                                                       *)

\* an i64 that is a u32 as well: 0 .. 2^32 - 1
FitsU32(w) == w[3] = 0 /\ w[4] = 0

\* an i64 other than -1, 0 and 1
Grows(w) == w \notin {WZero, WOne, U64Max}

\* the parsed tree is an exponent node and it has been evaluated
IsExponent == parsed.r = "Ok" /\ parsed.v.t = "ExponentExpression" /\ val # Pending

\* C24: an exponent node whose children yield the Numbers l and r narrows
\* both to i64, truncating a Float, and returns Integer(l' raised to r'),
\* r' being the right operand as an i64 with no further truncation; the
\* result is an Integer even when an operand is a Float, and a child that
\* is not a Number yields the invalid-type error.
C24_ExponentI64 ==
    IsExponent =>
        /\ (IsOk(LeftOutcome) /\ ~IsNumber(LeftOutcome)) => Returned(val, InvalidType)
        /\ (IsNumber(LeftOutcome) /\ IsOk(RightOutcome) /\ ~IsNumber(RightOutcome)) =>
              Returned(val, InvalidType)
        /\ (IsNumber(LeftOutcome) /\ IsNumber(RightOutcome)) =>
              LET base == NumberAsI64(LeftOutcome.v.v)
                  exp == NumberAsI64(RightOutcome.v.v)
              IN  /\ val.r = "Ok" => val.v.t = "Number" /\ val.v.v.k = "Integer"
                  /\ (FitsU32(exp) /\ val.r = "Ok") =>
                        val.v.v.w = I64Pow(base, exp, FALSE).v
                  \* no i64 is base raised to an exponent of 2^32 or more
                  /\ (~FitsU32(exp) /\ ~WNegative(exp) /\ Grows(base)) => val.r # "Ok"

-----------------------------------------------------------------------------
(* The macros of the parser                                                *)

\* the token the call found next, or the empty text at the end of the input
NextWas == IF rhs < Len(toks) THEN toks[rhs + 1] ELSE ""

RECURSIVE Lowercase(_)
\* the text with its capital letters made small
Lowercase(s) ==
    IF s = "" THEN ""
    ELSE (IF IndexOf(Head(s), UpperLetters) # 0
          THEN Char(LowerLetters, IndexOf(Head(s), UpperLetters))
          ELSE Char(s, 1)) \o Lowercase(Tail(s))

\* two texts are equal when the case of their letters is ignored
EqualIgnoringCase(x, y) == Lowercase(x) = Lowercase(y)

\* C25: consume_next matches without regard to case: consume_next(expected)
\* succeeds exactly when the next token equals expected ignoring the case of
\* the letters, and then consumes exactly that token.  So the generated
\* parser of a function node, which consumes the lowercase name of the node,
\* accepts the name in any casing: to_upper, TO_UPPER and To_Upper.
C25_ConsumeNextAnyCase ==
    /\ op = "consume_next" =>
          /\ out.r = "Ok" <=> (rhs < Len(toks) /\ EqualIgnoringCase(NextWas, lhs))
          /\ out.r = "Ok" => pos = rhs + 1
    /\ (op = "function" /\ rhs = 0
            /\ source \in {"to_upper ( 1 )", "TO_UPPER ( 1 )", "To_Upper(1)"}) =>
          out.r = "Ok" /\ pos = Len(toks)

\* a call of continue_if or is_next has just returned in the primed state:
\* yes says whether the upper-cased next token was the one asked for
Matched == rhs' < Len(toks) /\ ToUppercase(toks[rhs' + 1]) = lhs'

-----------------------------------------------------------------------------
(* Progress of the parser                                                  *)

\* the operators a loop of the parser goes on
LoopOperators(name) ==
    CASE name = "add_loop" -> {ADD, MINUS}
      [] name = "multiply_loop" -> {MULTIPLY, DIVIDE, MODULUS}
      [] name = "exponent_loop" -> {EXPONENT}
      [] OTHER -> {}

\* the call that just returned was one of the three operator loops
IsLoop == op \in {"add_loop", "multiply_loop", "exponent_loop"}

\* the tree a call of expression at position p builds, when it builds one
TreeAt(p, tree) == Expression(toks, p).r = "Ok" /\ SameTree(Expression(toks, p).v, tree)

\* C27: Parser::expression terminates on every finite token sequence: the
\* number of remaining tokens never increases; every iteration of the
\* add/subtract, multiply/divide/modulus, exponent, map and list loops
\* consumes at least one token; and every recursive call of expression, from
\* a parenthesis, a map value or a list element, comes after at least one
\* token has been consumed.
C27_ParserProgress ==
    op # "none" =>
        /\ rhs <= pos /\ pos <= Len(toks)
        /\ (~IsLoop /\ out.r = "Ok") => pos > rhs
        /\ (IsLoop /\ NextWas \notin LoopOperators(op)) => pos = rhs /\ out.r = "Ok"
        /\ (IsLoop /\ NextWas \in LoopOperators(op)) =>
              /\ pos > rhs
              /\ out.r = "Ok" => pos >= rhs + 2
        /\ (op = "parse_expression" /\ out.r = "Ok" /\ NextWas = SUB_EXPR_OPEN) =>
              /\ TreeAt(rhs + 1, out.v.expr)
              /\ pos = Expression(toks, rhs + 1).pos + 1
        /\ (op = "parse_expression" /\ out.r = "Ok" /\ NextWas = ARRAY_WRAP) =>
              /\ TreeAt(rhs + 1, out.v.value[1])
              /\ pos >= rhs + 2 * Len(out.v.value) + 1
              /\ Len(out.v.value) > 1 =>
                    TreeAt(Expression(toks, rhs + 1).pos + 1, out.v.value[2])
        /\ (op = "parse_expression" /\ out.r = "Ok" /\ NextWas = MAP_WRAP) =>
              /\ TreeAt(rhs + 5, WrittenPairs(rhs + 1)[1][2])
              /\ pos >= rhs + 6

C27_Witness ==
    /\ op = "add_loop" /\ source = "34-66*11+(45^2)/10.0"
    /\ rhs = 1 /\ pos = Len(toks) /\ out.r = "Ok"

\* a call of Parser::expression has returned a tree
GaveTree == op = "expression" /\ out.r = "Ok"

\* C28: Parser::expression stops at the first token that cannot continue the
\* expression and does not require the end of the input: when a complete
\* expression is followed by further tokens, as in '10 )' or '1 2', it
\* returns Ok with the tree of the leading expression, reports no error and
\* leaves the trailing tokens unconsumed in the lexer.
C28_StopsAtFirstToken ==
    /\ (op = "expression" /\ rhs = 0 /\ source \in {"10 )", "1 2"}) =>
          /\ out.r = "Ok" /\ out.v.t = "NumberLiteral"
          /\ pos = 1 /\ LexFuture(toks, pos) = <<toks[2]>>
    /\ GaveTree =>
          /\ TokenAt(pos + 1) \notin Operators
          /\ Expression(LexConsumed(toks, pos), rhs).r = "Ok"
          /\ Expression(LexConsumed(toks, pos), rhs).pos = pos
          /\ SameTree(Expression(LexConsumed(toks, pos), rhs).v, out.v)

C28_Witness ==
    /\ GaveTree /\ source = "10 )" /\ rhs = 0
    /\ pos = 1 /\ LexFuture(toks, pos) = <<SUB_EXPR_CLOSE>>

-----------------------------------------------------------------------------
(* Values that may come wrapped                                            *)

\* parse_identifier or parse_duration was called on the whole input
IsWrapCall == op \in {"parse_identifier", "parse_duration"} /\ rhs = 0

\* the call returned the value that the token v stands for
GaveValueOf(v) ==
    IF op = "parse_identifier" THEN out.r = "Ok" /\ out.v = v
    ELSE /\ out.r = DurationOrError(v, 0).r
         /\ out.r = "Ok" => out.v = DurationOrError(v, 0).v

\* C29: parse_identifier(wrap) and parse_duration(wrap) accept the value
\* bare or enclosed in the wrap token: for the token sequences [v] and
\* [wrap, v, wrap] they consume all of the tokens and return the value taken
\* from v, the same in both forms; when the opening wrap is there, a missing
\* or different closing token is an error.
C29_BareOrWrapped ==
    IsWrapCall =>
        /\ (Len(toks) = 1 /\ toks[1] # lhs) => pos = 1 /\ GaveValueOf(toks[1])
        /\ (Len(toks) = 3 /\ toks[1] = lhs /\ toks[2] # lhs /\ toks[3] = lhs) =>
              pos = 3 /\ GaveValueOf(toks[2])
        /\ (Len(toks) >= 2 /\ toks[1] = lhs /\ toks[2] # lhs /\ TokenAt(3) # lhs) =>
              out.r = "Err"

-----------------------------------------------------------------------------
(* Ordering of Any against its equality                                    *)

\* C30: the ordering of Any is consistent with its equality: for all values
\* a and b of every variant, List and Map included, a == b holds exactly
\* when partial_cmp(a, b) is Some(Equal); in particular every value compares
\* Equal to itself.
C30_OrderMatchesEq ==
    (op = "partial_cmp") =>
        /\ AnyEq(lhs, rhs) <=> out.v = "eq"
        /\ SameAny(lhs, rhs) => out.v = "eq"

=============================================================================
